---- MODULE Spec2Model ----
(***************************************************************************)
(* Model of the Strife payment system: the gateway's two-phase-commit      *)
(* coordinator and idempotency cache (gateway.py) and the bank's           *)
(* prepared-transaction manager, ledger and direct transaction path        *)
(* (bank_server.py).                                                       *)
(*                                                                         *)
(* Conventions.                                                            *)
(*  - Amounts and balances are integers; one unit stands for 1000.0 of the *)
(*    sample data (user i starts with 1000.0 * i).                         *)
(*  - Strings minted with uuid4 are modelled by a fresh counter value.     *)
(*  - A payment id is an integer; NoPid (0) stands for the empty string.   *)
(*  - The participant transaction id "{gid}-sender-{payment_id}" is the    *)
(*    record [gid, role, pid]; a ledger id minted with uuid4 has role      *)
(*    "uuid".                                                              *)
(*  - A message is a record [text, inner, a, b]: the fixed text, the text  *)
(*    of an embedded bank message and up to two embedded numbers.          *)
(*  - A bank handler runs as one step (the in-place balance update and the *)
(*    appends are single dictionary/list operations); the gateway's        *)
(*    ProcessPayment is cut at every bank RPC, because worker threads of   *)
(*    the pool interleave there.                                           *)
(***************************************************************************)
EXTENDS Integers, Sequences, FiniteSets, TLC

\* ------------------------------------------------------------------ bounds
MaxWorkers == 2
MaxCalls == 2
MaxAmount == 1
NumPaymentIds == 2
MaxTokens == 1
MaxFaults == 1
MaxBankCalls == 4
MaxSessions == 2
MaxTime == 2
MaxThreads == 2

\* --------------------------------------------------------------- constants
Banks == {"Bank1", "Bank2"}
Users == {"user1", "user2"}
UnknownBank == "BankZ"
UnknownAccount == "ACC999"
NoPid == 0
NoGid == 0
SELF == "self"
TokenLifetime == 1

AccountOf(u) == IF u = "user1" THEN "ACC001" ELSE "ACC002"
PasswordOf(u) == IF u = "user1" THEN "pass1" ELSE "pass2"
InitialBalance(u) == IF u = "user1" THEN 1 ELSE 2
AccountIds == {AccountOf(u) : u \in Users}
PaymentIds == 1..NumPaymentIds
Amounts == 1..MaxAmount

EmptyMap == [x \in {} |-> 0]
Min(a, b) == IF a < b THEN a ELSE b
NoAbortMsg == [text |-> "", inner |-> "", a |-> 0, b |-> 0]
Msg(text, inner, a, b) == [text |-> text, inner |-> inner, a |-> a, b |-> b]
Tid(gid, role, pid) == [gid |-> gid, role |-> role, pid |-> pid]
Entry(tid, type, amount) == [transaction_id |-> tid, type |-> type, amount |-> amount]

VARIABLES
    users,                  \* bank -> username -> balance
    transactions,           \* bank -> account id -> sequence of ledger entries
    processed_transactions, \* bank -> payment id -> {success, message}
    prepared_transactions,  \* bank -> transaction id -> prepared record
    active_tokens,          \* gateway: token -> {username, bank, account}
    PROCESSED_KEYS,         \* gateway: payment id -> cached PaymentResponse
    calls,                  \* gateway worker -> state of its ProcessPayment
    last,                   \* the ProcessPayment call that returned last
    uuid,                   \* uuid4 values minted so far, per use
    now,                    \* time.time() at the gateway, in token lifetimes
    pending,                \* client: payment id -> record in its pending directory
    client,                 \* client: its token and the position of its two threads
    sweep,                  \* gateway: position of the token sweep and the table it built
    sup,                    \* client: its connection, its monitor threads and its foreground
    hist                    \* history: what has happened in this run

vars == <<users, transactions, processed_transactions, prepared_transactions,
          active_tokens, PROCESSED_KEYS, calls, last, uuid, now, pending, client, sweep, sup,
          hist>>

\* ------------------------------------------------------------------- bank
AccountExists(acct) == \E u \in Users : AccountOf(u) = acct
UsernameOf(acct) == CHOOSE u \in Users : AccountOf(u) = acct

RECURSIVE LedgerSum(_)
LedgerSum(s) ==
    IF s = <<>> THEN 0
    ELSE LET e == Head(s)
             v == IF e.type = "credit" THEN e.amount
                  ELSE IF e.type = "debit" THEN 0 - e.amount
                  ELSE 0
         IN v + LedgerSum(Tail(s))

LoadUserCredentials == [u \in Users |-> InitialBalance(u)]

LoadTransactions(us) ==
    [a \in AccountIds |->
        <<Entry(Tid(0, "uuid", NoPid), "credit", us[UsernameOf(a)])>>]

\* A ledger that drops the entry.
record_transaction_dropped(led, acct, type, amount, tid) == led

record_transaction(led, acct, type, amount, tid) ==
    IF acct \in DOMAIN led
    THEN [led EXCEPT ![acct] = Append(@, Entry(tid, type, amount))]
    ELSE led @@ (acct :> <<Entry(tid, type, amount)>>)

GetBalance(b, acct) ==
    IF AccountExists(acct)
    THEN [success |-> TRUE, balance |-> users[b][UsernameOf(acct)],
          message |-> Msg("Balance retrieved successfully", "", 0, 0), code |-> "OK"]
    ELSE [success |-> FALSE, balance |-> 0,
          message |-> Msg("Account not found", "", 0, 0), code |-> "NOT_FOUND"]

VerifyCredentials(username, password) ==
    IF username \in Users /\ PasswordOf(username) = password
    THEN [valid |-> TRUE, account_id |-> AccountOf(username)]
    ELSE [valid |-> FALSE, account_id |-> ""]

\* PrepareTransaction: the vote and the prepared table afterwards.
PrepareTransaction(prep, bal, tid, acct, type, amount) ==
    IF tid \in DOMAIN prep
    THEN [ready |-> prep[tid].ready, message |-> prep[tid].message, prep |-> prep]
    ELSE IF ~AccountExists(acct)
    THEN [ready |-> FALSE, message |-> Msg("Account not found", "", 0, 0), prep |-> prep]
    ELSE IF type = "debit" /\ bal[UsernameOf(acct)] < amount
    THEN [ready |-> FALSE,
          message |-> Msg("Insufficient funds", "", bal[UsernameOf(acct)], amount),
          prep |-> prep]
    ELSE [ready |-> TRUE, message |-> Msg("Ready to process transaction", "", 0, 0),
          prep |-> prep @@ (tid :> [ready |-> TRUE,
                                    message |-> Msg("Ready to process transaction", "", 0, 0),
                                    account_id |-> acct, username |-> UsernameOf(acct),
                                    type |-> type, amount |-> amount])]

\* A balance update that books debits only.
CommitBalanceDebitOnly(old, type, amount) ==
    IF type = "debit" THEN old - amount ELSE old

\* "Update balance" of CommitTransaction.
CommitBalance(old, type, amount) ==
    IF type = "debit" THEN old - amount
    ELSE IF type = "credit" THEN old + amount
    ELSE old

\* A removal that leaves the prepared table as it is.
UnprepareKept(prep, tid) == prep

\* "del self.prepared_transactions[transaction_id]" of CommitTransaction.
Unprepare(prep, tid) == [t \in DOMAIN prep \ {tid} |-> prep[t]]

\* A commit that books the entry under an id of its own, as record_transaction
\* does when it is not given one.
CommitTransactionFreshId(prep, bal, led, tid) ==
    IF tid \notin DOMAIN prep
    THEN [success |-> FALSE, message |-> Msg("Transaction not prepared", "", 0, 0),
          prep |-> prep, bal |-> bal, led |-> led]
    ELSE LET d == prep[tid] IN
         [success |-> TRUE, message |-> Msg("Transaction committed successfully", "", 0, 0),
          prep |-> Unprepare(prep, tid),
          bal |-> [bal EXCEPT ![d.username] = CommitBalance(@, d.type, d.amount)],
          led |-> record_transaction(led, d.account_id, d.type, d.amount,
                                     Tid(NoGid, "uuid", NoPid))]

\* CommitTransaction: the response and the bank's state afterwards.
CommitTransaction(prep, bal, led, tid) ==
    IF tid \notin DOMAIN prep
    THEN [success |-> FALSE, message |-> Msg("Transaction not prepared", "", 0, 0),
          prep |-> prep, bal |-> bal, led |-> led]
    ELSE IF ~prep[tid].ready
    THEN [success |-> FALSE, message |-> prep[tid].message,
          prep |-> prep, bal |-> bal, led |-> led]
    ELSE LET d == prep[tid] IN
         [success |-> TRUE, message |-> Msg("Transaction committed successfully", "", 0, 0),
          prep |-> Unprepare(prep, tid),
          bal |-> [bal EXCEPT ![d.username] = CommitBalance(@, d.type, d.amount)],
          led |-> record_transaction(led, d.account_id, d.type, d.amount, tid)]

\* An abort that clears the whole prepared table and refuses unknown ids.
AbortTransactionAll(prep, tid) ==
    [success |-> tid \in DOMAIN prep, message |-> NoAbortMsg, prep |-> EmptyMap]

\* AbortTransaction: always success; the prepared table afterwards.
AbortTransaction(prep, tid) ==
    IF tid \notin DOMAIN prep
    THEN [success |-> TRUE, message |-> Msg("Transaction not found, considered aborted", "", 0, 0),
          prep |-> prep]
    ELSE [success |-> TRUE, message |-> Msg("Transaction aborted successfully", "", 0, 0),
          prep |-> [t \in DOMAIN prep \ {tid} |-> prep[t]]]

\* An idempotency check that never finds anything.
IsProcessedNever(proc, pid) == FALSE

\* "if payment_id and payment_id in self.processed_transactions".
IsProcessed(proc, pid) == pid # NoPid /\ pid \in DOMAIN proc

\* ProcessTransaction (direct path): response and bank state afterwards.
ProcessTransaction(bal, led, proc, acct, type, amount, pid, fresh) ==
    IF IsProcessed(proc, pid)
    THEN [success |-> proc[pid].success, message |-> proc[pid].message,
          bal |-> bal, led |-> led, proc |-> proc]
    ELSE LET r ==
               IF ~AccountExists(acct)
               THEN [success |-> FALSE, message |-> Msg("Account not found", "", 0, 0),
                     bal |-> bal, led |-> led]
               ELSE LET u == UsernameOf(acct) IN
                    IF type = "debit"
                    THEN IF bal[u] < amount
                         THEN [success |-> FALSE,
                               message |-> Msg("Insufficient funds", "", bal[u], 0),
                               bal |-> bal, led |-> led]
                         ELSE [success |-> TRUE,
                               message |-> Msg("Debit successful", "", bal[u] - amount, 0),
                               bal |-> [bal EXCEPT ![u] = @ - amount],
                               led |-> record_transaction(led, acct, "debit", amount,
                                                          Tid(fresh, "uuid", NoPid))]
                    ELSE IF type = "credit"
                    THEN [success |-> TRUE,
                          message |-> Msg("Credit successful", "", bal[u] + amount, 0),
                          bal |-> [bal EXCEPT ![u] = @ + amount],
                          led |-> record_transaction(led, acct, "credit", amount,
                                                     Tid(fresh, "uuid", NoPid))]
                    ELSE [success |-> FALSE,
                          message |-> Msg("Invalid transaction type", "", 0, 0),
                          bal |-> bal, led |-> led]
         IN [success |-> r.success, message |-> r.message, bal |-> r.bal, led |-> r.led,
             proc |-> IF pid # NoPid
                      THEN (pid :> [success |-> r.success, message |-> r.message]) @@ proc
                      ELSE proc]

\* ---------------------------------------------------------------- gateway
NoToken == [user |-> "", n |-> 0]
NoMsg == Msg("", "", 0, 0)
NoResponse == [success |-> FALSE, transaction_id |-> NoGid, status |-> "", message |-> NoMsg]
NoRequest == [mtoken |-> NoToken, token |-> NoToken, sender_account |-> "",
              receiver_account |-> "", receiver_bank |-> "", amount |-> 0,
              payment_id |-> NoPid]
NoSender == [bank |-> "", account |-> ""]
NoLookup == [hit |-> FALSE, cached |-> NoResponse]
IdleCall == [pc |-> "idle", req |-> NoRequest, sender |-> NoSender, gid |-> NoGid,
             rpcs |-> <<>>, lookup |-> NoLookup]
NoReturn == [req |-> NoRequest, resp |-> NoResponse, code |-> "", authed |-> FALSE,
             returned |-> FALSE, rpcs |-> <<>>, lookup |-> NoLookup]

PaymentResponse(success, gid, status, message) ==
    [success |-> success, transaction_id |-> gid, status |-> status, message |-> message]

bank_stubs == Banks

\* What the list in _is_retriable_error suggests: a failure may be retried.
IsRetriableErrorByList(response) == ~response.success

\* _is_retriable_error builds a list and returns nothing: None, falsy.
IsRetriableError(response) == FALSE

\* A policy that keeps and replays successes only.
CachePolicySuccessOnly(response) == response.success

\* "if payment_response.success or not self._is_retriable_error(...)"
CachePolicy(response) == response.success \/ ~IsRetriableError(response)

\* The outcome of one RPC to a bank, as the gateway's stub call sees it:
\*   ok             the bank ran the handler and the response arrived
\*   slow           as ok, but the time-budget check after the call fires
\*   deadline_lost  DEADLINE_EXCEEDED, the bank never ran the handler
\*   deadline_done  DEADLINE_EXCEEDED, the bank ran the handler
\*   unavailable    another RpcError, the bank never ran the handler
RpcOutcomes == {"ok", "slow", "deadline_lost", "deadline_done", "unavailable"}
AbortOutcomes == {"ok", "unavailable"}
Delivered(o) == o \in {"ok", "slow", "deadline_done"}
Seen(o) == o \in {"ok", "slow"}
IsDeadline(o) == o \in {"deadline_lost", "deadline_done"}
FaultCount(o) == IF o = "ok" THEN 0 ELSE 1

\* The banks' state as one value, so that a coordinator step can thread it
\* through the RPCs it makes.
World == [users |-> users, transactions |-> transactions,
          prepared |-> prepared_transactions]

\* A PrepareTransaction call whose credit vote leaves no prepared entry.
DoPrepareCreditLost(w, b, tid, acct, type, amount) ==
    LET r == PrepareTransaction(w.prepared[b], w.users[b], tid, acct, type, amount)
    IN [w |-> IF type = "credit" THEN w ELSE [w EXCEPT !.prepared[b] = r.prep],
        ready |-> r.ready, message |-> r.message]

\* The stub call PrepareTransaction at bank b.
DoPrepare(w, b, tid, acct, type, amount) ==
    LET r == PrepareTransaction(w.prepared[b], w.users[b], tid, acct, type, amount)
    IN [w |-> [w EXCEPT !.prepared[b] = r.prep], ready |-> r.ready, message |-> r.message]

DoCommit(w, b, tid) ==
    LET r == CommitTransaction(w.prepared[b], w.users[b], w.transactions[b], tid)
    IN [w |-> [w EXCEPT !.prepared[b] = r.prep, !.users[b] = r.bal,
                        !.transactions[b] = r.led],
        success |-> r.success, message |-> r.message]

\* An abort RPC: its response is never looked at, an exception is only logged.
DoAbort(w, b, tid, ao) ==
    IF ao = "ok"
    THEN [w EXCEPT !.prepared[b] = AbortTransaction(w.prepared[b], tid).prep]
    ELSE w

\* Balance change that a bank step made to the account of a prepared entry.
BalanceDelta(w0, w1, b, tid) ==
    IF tid \in DOMAIN w0.prepared[b]
    THEN LET u == w0.prepared[b][tid].username IN w1.users[b][u] - w0.users[b][u]
    ELSE 0

\* ---------------------------------------------------------------- history
PidApplied(applied, pid) ==
    [t \in {x \in DOMAIN applied : x.pid = pid} |-> applied[t]]

HistApplied(h, w0, w1, b, tid, delivered) ==
    IF delivered /\ w1.transactions[b] # w0.transactions[b]
    THEN [h EXCEPT !.applied = (tid :> BalanceDelta(w0, w1, b, tid)) @@ @]
    ELSE h

\* The ledger entries, over all banks, that carry payment id pid in their id.
PidLedger(led, pid) ==
    {x \in UNION {{<<b, a, i, led[b][a][i]>> : i \in DOMAIN led[b][a]} :
                        b \in Banks, a \in AccountIds} :
        x[4].transaction_id.pid = pid /\ x[4].transaction_id.role # "uuid"}

\* A call that passed authentication returns: count it, and keep the response
\* and the payment's effects when it is the first for its payment id.
HistFinish(h, pid, resp, authed, led) ==
    IF authed /\ pid # NoPid
    THEN [h EXCEPT !.returns[pid] = Min(@ + 1, MaxCalls),
                   !.first = IF pid \in DOMAIN @ THEN @
                             ELSE @ @@ (pid :> [resp |-> resp,
                                                applied |-> PidApplied(h.applied, pid),
                                                ledger |-> PidLedger(led, pid)])]
    ELSE h

\* No bank RPC observed yet.
NoDirect == [n |-> 0, op |-> "", bank |-> "", tid |-> Tid(NoGid, "", NoPid), args |-> <<>>,
             known |-> FALSE, ok |-> FALSE]

\* No CheckBalance or GetTransactionHistory observed yet.
NoRead == [n |-> 0, op |-> "", token |-> [user |-> "", n |-> 0], code |-> "",
           success |-> FALSE, value |-> 0]

\* The client's thread t is at no call: the main thread waits for a command,
\* the monitor sleeps.
IdleThread == [pc |-> "idle", pid |-> NoPid, args |-> [receiver |-> NoSender, amount |-> 0],
               todo |-> {}]

\* PaymentClient.__init__: no token, an empty pending directory of its own.
\* reported is what _send_payment returned last for each payment id, sent the
\* payment ids it has tried to send.
NoReport == [kind |-> "none", code |-> "", resp |-> NoResponse, cached |-> FALSE, by |-> ""]
NoClient == [token |-> NoToken, main |-> IdleThread, monitor |-> IdleThread,
             reported |-> [p \in PaymentIds |-> NoReport], sent |-> {}]

NoProcess == [pid |-> NoPid, success |-> FALSE, message |-> NoAbortMsg, replay |-> FALSE]

NoSweep == [pc |-> "idle", kept |-> EmptyMap]

\* PaymentClient.__init__: no channel, not connected, no monitor thread; the
\* foreground is at its menu. The last four fields are the observer's.
NoSupervisor ==
    [is_connected |-> FALSE, stop_monitoring |-> FALSE, connectivity_thread |-> 0,
     thread |-> [t \in 1..MaxThreads |-> [pc |-> "unborn", probe |-> ""]],
     channel |-> "none", fg |-> "menu",
     after |-> "", skipped |-> {}, cut |-> "", answered |-> FALSE]

InitHist == [acked |-> {}, applied |-> EmptyMap, first |-> EmptyMap, attempts |-> EmptyMap,
             overlap |-> {}, concurrent |-> FALSE, returns |-> [p \in PaymentIds |-> 0],
             nfaults |-> 0, ncalls |-> 0, gwRestarted |-> FALSE,
             votes |-> EmptyMap, direct |-> NoDirect, stale |-> FALSE, read |-> NoRead,
             ready |-> {}, lost |-> {}, open |-> {},
             process |-> NoProcess, answers |-> EmptyMap,
             minted |-> EmptyMap, cachedBy |-> EmptyMap]

Init ==
    /\ users = [b \in Banks |-> LoadUserCredentials]
    /\ transactions = [b \in Banks |-> LoadTransactions(LoadUserCredentials)]
    /\ processed_transactions = [b \in Banks |-> EmptyMap]
    /\ prepared_transactions = [b \in Banks |-> EmptyMap]
    /\ active_tokens = EmptyMap
    /\ PROCESSED_KEYS = EmptyMap
    /\ calls = [c \in 1..MaxWorkers |-> IdleCall]
    /\ last = NoReturn
    /\ uuid = [token |-> 0, tx |-> 0, entry |-> 0]
    /\ now = 0
    /\ pending = EmptyMap
    /\ client = NoClient
    /\ sweep = NoSweep
    /\ sup = NoSupervisor
    /\ hist = InitHist

\* ------------------------------------------------------------ gateway RPCs
\* Authenticate: verify at the owning bank, mint "{username}-{uuid4}", valid
\* for one hour.
Authenticate(username, password, bank_name) ==
    /\ bank_name \in bank_stubs
    /\ VerifyCredentials(username, password).valid
    /\ LET token == [user |-> username, n |-> uuid.token + 1] IN
       /\ active_tokens' = active_tokens @@
            (token :> [username |-> username, bank |-> bank_name,
                       account |-> VerifyCredentials(username, password).account_id,
                       expires |-> now + TokenLifetime])
       /\ hist' = [hist EXCEPT !.minted = @ @@ (token :> now + TokenLifetime)]
    /\ uuid' = [uuid EXCEPT !.token = @ + 1]
    /\ UNCHANGED <<users, transactions, processed_transactions, prepared_transactions,
                   PROCESSED_KEYS, calls, last>>
    /\ UNCHANGED <<now, pending, client, sweep, sup>>

\* A client logs in while the gateway holds fewer than MaxTokens sessions.
Login(username, password, bank_name) ==
    /\ Cardinality(DOMAIN active_tokens) < MaxTokens
    /\ Authenticate(username, password, bank_name)

\* "active_tokens[token]["expires"] < time.time()"
Expired(token) == active_tokens[token].expires < now

\* AuthInterceptor.intercept_service for the methods that need a session: the
\* metadata token is in the table and has not expired.
InterceptorAccepts(mtoken) == mtoken \in DOMAIN active_tokens /\ ~Expired(mtoken)

\* "sender_info = active_tokens[token]": read once, when the handler starts.
SenderInfo(token) ==
    IF token \in DOMAIN active_tokens
    THEN [bank |-> active_tokens[token].bank, account |-> active_tokens[token].account]
    ELSE NoSender

SenderBank(c) == calls[c].sender.bank
SenderAccount(c) == calls[c].sender.account
SenderTx(c) == Tid(calls[c].gid, "sender", calls[c].req.payment_id)
ReceiverTx(c) == Tid(calls[c].gid, "receiver", calls[c].req.payment_id)
InFlight(c) == calls[c].pc # "idle"

\* A handler that returns without ever writing to PROCESSED_KEYS.
ReturnUncached(cs, c, resp, code, authed, cache, h) ==
    /\ calls' = [cs EXCEPT ![c] = IdleCall]
    /\ last' = [req |-> cs[c].req, resp |-> resp, code |-> code, authed |-> authed,
                returned |-> TRUE, rpcs |-> cs[c].rpcs, lookup |-> cs[c].lookup]
    /\ PROCESSED_KEYS' = PROCESSED_KEYS
    /\ hist' = HistFinish(h, cs[c].req.payment_id, resp, authed, transactions')

\* The handler of worker c returns: the response goes to the caller and, when
\* the code caches it, into PROCESSED_KEYS.  cs is the calls table to update.
Return(cs, c, resp, code, authed, cache, h) ==
    /\ calls' = [cs EXCEPT ![c] = IdleCall]
    /\ last' = [req |-> cs[c].req, resp |-> resp, code |-> code, authed |-> authed,
                returned |-> TRUE, rpcs |-> cs[c].rpcs, lookup |-> cs[c].lookup]
    /\ PROCESSED_KEYS' =
          IF cache /\ cs[c].req.payment_id # NoPid
          THEN (cs[c].req.payment_id :> resp) @@ PROCESSED_KEYS
          ELSE PROCESSED_KEYS
    /\ hist' = LET h1 == HistFinish(h, cs[c].req.payment_id, resp, authed, transactions')
               IN IF cache /\ cs[c].req.payment_id # NoPid
                  THEN [h1 EXCEPT !.cachedBy = (cs[c].req.payment_id :> cs[c].sender.account) @@ @]
                  ELSE h1

\* One RPC of the coordinator: the method and the participant it goes to.
Rpc(op, role) == <<op, role>>

\* The calls table once worker c has sent the RPCs ops.
Logged(c, ops) == [calls EXCEPT ![c].rpcs = @ \o ops]

\* The 2PC part of the handler returns, after sending the RPCs ops: "if
\* success or not retriable: cache".
Return2PC(c, resp, h, ops) ==
    Return(Logged(c, ops), c, resp, "OK", TRUE, CachePolicy(resp), h)

SetWorld(w) ==
    /\ users' = w.users
    /\ transactions' = w.transactions
    /\ prepared_transactions' = w.prepared

\* Where a payment is usually sent: an account of the other bank.
Receiver == [bank |-> "Bank2", account |-> "ACC002"]

\* Where else it may be sent: the first account of the first bank (the
\* sender's own when the sender is user1), an account no bank has, a bank the
\* gateway does not know.
OtherReceivers ==
    {[bank |-> "Bank1", account |-> "ACC001"],
     [bank |-> "Bank2", account |-> UnknownAccount],
     [bank |-> UnknownBank, account |-> UnknownAccount]}

Request(mtoken, token, sender_account, receiver, amount, pid) ==
    [mtoken |-> mtoken, token |-> token, sender_account |-> sender_account,
     receiver_account |-> receiver.account, receiver_bank |-> receiver.bank,
     amount |-> amount, payment_id |-> pid]

\* The requests a caller may send: the client's (the token in the metadata and
\* in the body, sender "self") to the usual receiver with any amount and
\* payment id, to the other receivers with the first payment id, and the
\* client's with the metadata token, the body token or the sender changed.
Requests ==
    LET held == DOMAIN active_tokens IN
    {Request(t, t, SELF, Receiver, a, p) :
        t \in held, a \in Amounts, p \in PaymentIds \cup {NoPid}}
    \cup {Request(t, t, SELF, r, 1, 1) : t \in held, r \in OtherReceivers}
    \cup {Request(NoToken, t, SELF, Receiver, 1, 1) : t \in held}
    \cup {Request(t, NoToken, SELF, Receiver, 1, 1) : t \in held}
    \cup {Request(t, t, "ACC002", Receiver, 1, 1) : t \in held}

\* ProcessPayment gets as far as acting for the account of the body token:
\* the interceptor let the call in, the body token is in the table and the
\* sender named in the request is "self" or that account.
ActsFor(req) ==
    /\ InterceptorAccepts(req.mtoken)
    /\ req.token \in DOMAIN active_tokens
    /\ (req.sender_account = SELF \/ req.sender_account = active_tokens[req.token].account)

\* "if payment_id and payment_id in PROCESSED_KEYS": what the handler finds,
\* when it gets as far as looking.
Lookup(req) ==
    IF ActsFor(req) /\ req.payment_id # NoPid /\ req.payment_id \in DOMAIN PROCESSED_KEYS
    THEN [hit |-> TRUE, cached |-> PROCESSED_KEYS[req.payment_id]]
    ELSE NoLookup

\* ProcessPayment, from the interceptor up to the first bank RPC, on the idle
\* worker c.
ProcessPayment(c, req) ==
    /\ calls[c].pc = "idle"
    /\ UNCHANGED <<users, transactions, processed_transactions, prepared_transactions,
                   active_tokens, uuid>>
    /\ LET pid == req.payment_id
           h0 == [hist EXCEPT !.ncalls = Min(@ + 1, MaxCalls),
                              !.stale = @ \/ (ActsFor(req) /\ Expired(req.token)),
                              !.overlap = IF pid # NoPid /\ \E d \in 1..MaxWorkers :
                                              InFlight(d) /\ calls[d].req.payment_id = pid
                                           THEN @ \cup {pid} ELSE @,
                              !.concurrent = @ \/ \E d \in 1..MaxWorkers : InFlight(d)]
           started == [calls EXCEPT ![c] = [IdleCall EXCEPT !.req = req,
                                                            !.sender = SenderInfo(req.token),
                                                            !.lookup = Lookup(req)]]
           Ret(resp, code, authed, cache) ==
               Return(started, c, resp, code, authed, cache, h0)
       IN
       IF ~InterceptorAccepts(req.mtoken)
       THEN Ret(NoResponse, "UNAUTHENTICATED", FALSE, FALSE)
       ELSE IF req.token \notin DOMAIN active_tokens
       THEN Ret(PaymentResponse(FALSE, NoGid, "failed",
                    Msg("Authentication failed: Invalid token", "", 0, 0)),
                "UNAUTHENTICATED", FALSE, FALSE)
       ELSE IF req.sender_account # SELF
               /\ req.sender_account # active_tokens[req.token].account
       THEN Ret(PaymentResponse(FALSE, NoGid, "failed",
                    Msg("Authorization failed: Not your account", "", 0, 0)),
                "PERMISSION_DENIED", FALSE, FALSE)
       ELSE IF pid # NoPid /\ pid \in DOMAIN PROCESSED_KEYS
               /\ CachePolicy(PROCESSED_KEYS[pid])
       THEN Ret(PROCESSED_KEYS[pid], "OK", TRUE, FALSE)
       ELSE IF req.receiver_bank \notin bank_stubs
       THEN Ret(PaymentResponse(FALSE, NoGid, "failed",
                    Msg("Receiver bank not found", "", 0, 0)), "OK", TRUE, TRUE)
       ELSE /\ calls' = [started EXCEPT ![c] = [@ EXCEPT !.pc = "get_balance"]]
            /\ hist' = h0
            /\ UNCHANGED <<PROCESSED_KEYS, last>>
    /\ UNCHANGED <<now, sweep, sup>>

\* A caller other than the client model sends a ProcessPayment: the pool hands
\* it to the first idle worker.
StartCall(c, req) ==
    /\ \A d \in 1..(c - 1) : calls[d].pc # "idle"
    /\ hist.ncalls < MaxCalls
    /\ ProcessPayment(c, req)
    /\ UNCHANGED <<pending, client>>

\* "Check if sender has sufficient funds", then the entry of
\* _process_payment_2pc: the global id and the self-transfer short cut.
GetBalanceStep(c, o) ==
    /\ calls[c].pc = "get_balance"
    /\ o \in {"ok", "unavailable"}
    /\ hist.nfaults + FaultCount(o) <= MaxFaults
    /\ UNCHANGED <<users, transactions, processed_transactions, prepared_transactions,
                   active_tokens>>
    /\ LET req == calls[c].req
           r == GetBalance(SenderBank(c), SenderAccount(c))
           h0 == [hist EXCEPT !.nfaults = @ + FaultCount(o)]
           gid == uuid.tx + 1
           sent == Logged(c, <<Rpc("GetBalance", "sender")>>)
           self == SenderBank(c) = req.receiver_bank
                   /\ SenderAccount(c) = req.receiver_account
       IN
       IF o # "ok" \/ r.code # "OK"
       THEN /\ Return(sent, c, PaymentResponse(FALSE, NoGid, "failed",
                          Msg("Payment failed", IF o # "ok" THEN "UNAVAILABLE" ELSE r.code,
                              0, 0)),
                      IF o # "ok" THEN "UNAVAILABLE" ELSE r.code, TRUE, TRUE, h0)
            /\ UNCHANGED uuid
       ELSE IF ~r.success
       THEN /\ Return(sent, c, PaymentResponse(FALSE, NoGid, "failed",
                          Msg("Could not verify balance", r.message.text, 0, 0)),
                      "OK", TRUE, TRUE, h0)
            /\ UNCHANGED uuid
       ELSE IF r.balance < req.amount
       THEN /\ Return(sent, c, PaymentResponse(FALSE, NoGid, "failed",
                          Msg("Authorization failed: Insufficient funds", "",
                              r.balance, req.amount)),
                      "PERMISSION_DENIED", TRUE, TRUE, h0)
            /\ UNCHANGED uuid
       ELSE LET h1 == [h0 EXCEPT !.attempts = @ @@
                          (gid :> [payment_id |-> req.payment_id, amount |-> req.amount,
                                   self |-> self])]
            IN
            /\ uuid' = [uuid EXCEPT !.tx = gid]
            /\ IF self
               THEN Return(sent, c, PaymentResponse(TRUE, gid, "completed",
                               Msg("Self-transfer processed successfully", "", 0, 0)),
                           "OK", TRUE, TRUE, h1)
               ELSE /\ calls' = [sent EXCEPT ![c] = [@ EXCEPT !.pc = "prepare_sender",
                                                               !.gid = gid]]
                    /\ hist' = h1
                    /\ UNCHANGED <<PROCESSED_KEYS, last>>
    /\ UNCHANGED <<now, pending, client, sweep, sup>>

\* A failure response that carries status error.
FailedAsError(c, text, inner, a, b) ==
    PaymentResponse(FALSE, calls[c].gid, "error", Msg(text, inner, a, b))

Failed(c, text, inner, a, b) ==
    PaymentResponse(FALSE, calls[c].gid, "failed", Msg(text, inner, a, b))
Critical(c, text, inner) ==
    PaymentResponse(FALSE, calls[c].gid, "error", Msg(text, inner, 0, 0))

\* A classification that does not look at the vote of the response.
PrepareOutcomeUnchecked(o, ready) ==
    IF IsDeadline(o) THEN "deadline"
    ELSE IF ~Seen(o) THEN "rpc_error"
    ELSE "ready"

\* How the coordinator's try/except around a PrepareTransaction call classifies
\* what came back.
PrepareOutcome(o, ready) ==
    IF Seen(o) /\ ~ready THEN "voted_no"
    ELSE IF IsDeadline(o) THEN "deadline"
    ELSE IF ~Seen(o) THEN "rpc_error"
    ELSE "ready"

\* A classification that does not look at the success flag of the response.
CommitOutcomeUnchecked(o, success) ==
    IF IsDeadline(o) THEN "deadline"
    ELSE IF ~Seen(o) THEN "rpc_error"
    ELSE "committed"

\* The same for a CommitTransaction call.
CommitOutcome(o, success) ==
    IF Seen(o) /\ ~success THEN "refused"
    ELSE IF IsDeadline(o) THEN "deadline"
    ELSE IF ~Seen(o) THEN "rpc_error"
    ELSE "committed"

\* "if time.time() > deadline - 1"
BudgetExceeded(o) == o = "slow"

\* Status of the response after the sender's commit went through and the
\* time-budget check fired.
StatusAfterSenderCommit == "error"

\* A coordinator that aborts the sender after the sender's prepare failed.
AbortsAfterSenderPrepareFailureSender(out) == <<"sender">>

\* Which participants the coordinator sends AbortTransaction to, in order,
\* on each of its ways out.  After a failed PrepareTransaction at the sender:
\* none.
AbortsAfterSenderPrepareFailure(out) == <<>>

\* A coordinator that aborts nobody after the receiver's prepare failed.
AbortsAfterReceiverPrepareFailureNone(out) == <<>>

\* After a failed PrepareTransaction at the receiver: the sender.
AbortsAfterReceiverPrepareFailure(out) == <<"sender">>

\* A coordinator that, when the check fires after the second prepare, aborts
\* the sender only.
AbortsOnBudgetSenderOnly(pc) ==
    IF pc \in {"prepare_sender", "prepare_receiver"} THEN <<"sender">> ELSE <<>>

\* After a time-budget check that fired: the sender after the first prepare,
\* both after the second, nobody once the sender has committed.
AbortsOnBudget(pc) ==
    IF pc = "prepare_sender" THEN <<"sender">>
    ELSE IF pc = "prepare_receiver" THEN <<"sender", "receiver">>
    ELSE <<>>

\* A coordinator that aborts nobody after the sender's commit failed.
AbortsAfterSenderCommitFailureNone(out) == <<>>

\* After a failed CommitTransaction at the sender: the receiver, and after a
\* deadline the sender as well.
AbortsAfterSenderCommitFailure(out) ==
    IF out = "deadline" THEN <<"receiver", "sender">> ELSE <<"receiver">>

\* A coordinator that aborts the receiver after the receiver's commit failed.
AbortsAfterReceiverCommitFailureReceiver(out) == <<"receiver">>

\* After a failed CommitTransaction at the receiver: none.
AbortsAfterReceiverCommitFailure(out) == <<>>

\* The AbortTransaction RPCs of a plan, as the log has them.
AbortRpcs(plan) == [i \in 1..Len(plan) |-> Rpc("AbortTransaction", plan[i])]

\* The banks after worker c has sent the AbortTransaction RPCs of a plan: ao
\* is what becomes of the one to the sender, ar of the one to the receiver.
Aborted(c, w, plan, ao, ar) ==
    LET A(x, role) == IF role = "sender"
                      THEN DoAbort(x, SenderBank(c), SenderTx(c), ao)
                      ELSE DoAbort(x, calls[c].req.receiver_bank, ReceiverTx(c), ar)
    IN IF Len(plan) = 0 THEN w
       ELSE IF Len(plan) = 1 THEN A(w, plan[1])
       ELSE A(A(w, plan[1]), plan[2])

\* Prepare sender (debit), then the first time-budget check.
PrepareSenderStep(c, o, ao) ==
    /\ calls[c].pc = "prepare_sender"
    /\ o \in RpcOutcomes /\ ao \in AbortOutcomes
    /\ hist.nfaults + FaultCount(o) + FaultCount(ao) <= MaxFaults
    /\ LET req == calls[c].req
           w0 == World
           p == IF Delivered(o)
                THEN DoPrepare(w0, SenderBank(c), SenderTx(c), SenderAccount(c),
                               "debit", req.amount)
                ELSE [w |-> w0, ready |-> FALSE, message |-> NoMsg]
           h0 == [hist EXCEPT !.nfaults = @ + FaultCount(o) + FaultCount(ao),
                              !.ready = IF Seen(o) /\ p.ready
                                        THEN @ \cup {SenderTx(c)} ELSE @]
           out == PrepareOutcome(o, p.ready)
           plan == IF out # "ready" THEN AbortsAfterSenderPrepareFailure(out)
                   ELSE IF BudgetExceeded(o) THEN AbortsOnBudget(calls[c].pc)
                   ELSE <<>>
           ops == <<Rpc("PrepareTransaction", "sender")>> \o AbortRpcs(plan)
       IN
       /\ (out = "ready" /\ BudgetExceeded(o)) \/ ao = "ok"
       /\ (out = "voted_no") => o = "ok"
       /\ SetWorld(Aborted(c, p.w, plan, ao, "ok"))
       /\ IF out = "voted_no"
          THEN Return2PC(c, Failed(c, "Sender bank cannot process", p.message.text,
                                   p.message.a, p.message.b), h0, ops)
          ELSE IF out = "deadline"
          THEN Return2PC(c, Failed(c, "Transaction timed out during preparation (sender)",
                                   "", 0, 0), h0, ops)
          ELSE IF out = "rpc_error"
          THEN Return2PC(c, Failed(c, "Error communicating with sender bank",
                                   "UNAVAILABLE", 0, 0), h0, ops)
          ELSE IF BudgetExceeded(o)
          THEN Return2PC(c, Failed(c, "Transaction timed out during preparation phase",
                                   "", 0, 0), h0, ops)
          ELSE /\ calls' = [Logged(c, <<Rpc("PrepareTransaction", "sender")>>)
                            EXCEPT ![c] = [@ EXCEPT !.pc = "prepare_receiver"]]
               /\ hist' = h0
               /\ UNCHANGED <<PROCESSED_KEYS, last>>
    /\ UNCHANGED <<processed_transactions, active_tokens, uuid>>
    /\ UNCHANGED <<now, pending, client, sweep, sup>>

\* Prepare receiver (credit), then the second time-budget check.
PrepareReceiverStep(c, o, ao, ar) ==
    /\ calls[c].pc = "prepare_receiver"
    /\ o \in RpcOutcomes /\ ao \in AbortOutcomes /\ ar \in AbortOutcomes
    /\ hist.nfaults + FaultCount(o) + FaultCount(ao) + FaultCount(ar) <= MaxFaults
    /\ LET req == calls[c].req
           w0 == World
           p == IF Delivered(o)
                THEN DoPrepare(w0, req.receiver_bank, ReceiverTx(c), req.receiver_account,
                               "credit", req.amount)
                ELSE [w |-> w0, ready |-> FALSE, message |-> NoMsg]
           h0 == [hist EXCEPT !.nfaults = @ + FaultCount(o) + FaultCount(ao)
                                            + FaultCount(ar),
                              !.ready = IF Seen(o) /\ p.ready
                                        THEN @ \cup {ReceiverTx(c)} ELSE @]
           out == PrepareOutcome(o, p.ready)
           plan == IF out # "ready" THEN AbortsAfterReceiverPrepareFailure(out)
                   ELSE IF BudgetExceeded(o) THEN AbortsOnBudget(calls[c].pc)
                   ELSE <<>>
           ops == <<Rpc("PrepareTransaction", "receiver")>> \o AbortRpcs(plan)
       IN
       /\ (out = "ready" /\ BudgetExceeded(o)) \/ ar = "ok"
       /\ (out = "ready" /\ ~BudgetExceeded(o)) => ao = "ok"
       /\ (out = "voted_no") => o = "ok"
       /\ SetWorld(Aborted(c, p.w, plan, ao, ar))
       /\ IF out = "voted_no"
          THEN Return2PC(c, Failed(c, "Receiver bank cannot process", p.message.text,
                                   p.message.a, p.message.b), h0, ops)
          ELSE IF out = "deadline"
          THEN Return2PC(c, Failed(c, "Transaction timed out during preparation (receiver)",
                                   "", 0, 0), h0, ops)
          ELSE IF out = "rpc_error"
          THEN Return2PC(c, Failed(c, "Error communicating with receiver bank",
                                   "UNAVAILABLE", 0, 0), h0, ops)
          ELSE IF BudgetExceeded(o)
          THEN Return2PC(c, Failed(c, "Transaction timed out before commit phase",
                                   "", 0, 0), h0, ops)
          ELSE /\ calls' = [Logged(c, <<Rpc("PrepareTransaction", "receiver")>>)
                            EXCEPT ![c] = [@ EXCEPT !.pc = "commit_sender"]]
               /\ hist' = h0
               /\ UNCHANGED <<PROCESSED_KEYS, last>>
    /\ UNCHANGED <<processed_transactions, active_tokens, uuid>>
    /\ UNCHANGED <<now, pending, client, sweep, sup>>

\* Commit sender (debit), then the post-sender-commit time-budget check.
CommitSenderStep(c, o, ao, ar) ==
    /\ calls[c].pc = "commit_sender"
    /\ o \in RpcOutcomes /\ ao \in AbortOutcomes /\ ar \in AbortOutcomes
    /\ hist.nfaults + FaultCount(o) + FaultCount(ao) + FaultCount(ar) <= MaxFaults
    /\ LET req == calls[c].req
           w0 == World
           r == IF Delivered(o)
                THEN DoCommit(w0, SenderBank(c), SenderTx(c))
                ELSE [w |-> w0, success |-> FALSE, message |-> NoMsg]
           hf == [hist EXCEPT !.nfaults = @ + FaultCount(o) + FaultCount(ao)
                                            + FaultCount(ar),
                              !.acked = IF Seen(o) /\ r.success
                                        THEN @ \cup {SenderTx(c)} ELSE @]
           h0 == HistApplied(hf, w0, r.w, SenderBank(c), SenderTx(c), Delivered(o))
           out == CommitOutcome(o, r.success)
           plan == IF out # "committed" THEN AbortsAfterSenderCommitFailure(out)
                   ELSE IF BudgetExceeded(o) THEN AbortsOnBudget(calls[c].pc)
                   ELSE <<>>
           ops == <<Rpc("CommitTransaction", "sender")>> \o AbortRpcs(plan)
       IN
       /\ (out = "deadline") \/ ao = "ok"
       /\ (out = "committed") => ar = "ok"
       /\ (out = "refused") => o = "ok"
       /\ SetWorld(Aborted(c, r.w, plan, ao, ar))
       /\ IF out = "refused"
          THEN Return2PC(c, Failed(c, "Transaction failed during commit phase",
                                   r.message.text, 0, 0), h0, ops)
          ELSE IF out = "deadline"
          THEN Return2PC(c, Failed(c, "Transaction timed out during commit phase (sender)",
                                   "", 0, 0), h0, ops)
          ELSE IF out = "rpc_error"
          THEN Return2PC(c, Failed(c, "Error committing to sender bank",
                                   "UNAVAILABLE", 0, 0), h0, ops)
          ELSE IF BudgetExceeded(o)
          THEN Return2PC(c, PaymentResponse(FALSE, calls[c].gid, StatusAfterSenderCommit,
                        Msg("CRITICAL ERROR: Transaction timed out after sender committed",
                            "", 0, 0)), h0, ops)
          ELSE /\ calls' = [Logged(c, <<Rpc("CommitTransaction", "sender")>>)
                            EXCEPT ![c] = [@ EXCEPT !.pc = "commit_receiver"]]
               /\ hist' = h0
               /\ UNCHANGED <<PROCESSED_KEYS, last>>
    /\ UNCHANGED <<processed_transactions, active_tokens, uuid>>
    /\ UNCHANGED <<now, pending, client, sweep, sup>>

\* Commit receiver (credit).
CommitReceiverStep(c, o) ==
    /\ calls[c].pc = "commit_receiver"
    /\ o \in RpcOutcomes \ {"slow"}
    /\ hist.nfaults + FaultCount(o) <= MaxFaults
    /\ LET req == calls[c].req
           w0 == World
           r == IF Delivered(o)
                THEN DoCommit(w0, req.receiver_bank, ReceiverTx(c))
                ELSE [w |-> w0, success |-> FALSE, message |-> NoMsg]
           hf == [hist EXCEPT !.nfaults = @ + FaultCount(o),
                              !.acked = IF Seen(o) /\ r.success
                                        THEN @ \cup {ReceiverTx(c)} ELSE @]
           h0 == HistApplied(hf, w0, r.w, req.receiver_bank, ReceiverTx(c), Delivered(o))
           out == CommitOutcome(o, r.success)
           plan == IF out # "committed" THEN AbortsAfterReceiverCommitFailure(out) ELSE <<>>
           ops == <<Rpc("CommitTransaction", "receiver")>> \o AbortRpcs(plan)
       IN
       /\ SetWorld(Aborted(c, r.w, plan, "ok", "ok"))
       /\ IF out = "refused"
          THEN Return2PC(c, Critical(c,
                   "CRITICAL ERROR: Sender debited but receiver credit failed",
                   r.message.text), h0, ops)
          ELSE IF out = "deadline"
          THEN Return2PC(c, Critical(c,
                   "CRITICAL ERROR: Transaction timed out during commit phase (receiver)",
                   ""), h0, ops)
          ELSE IF out = "rpc_error"
          THEN Return2PC(c, Critical(c,
                   "CRITICAL ERROR: Error committing to receiver bank", "UNAVAILABLE"), h0, ops)
          ELSE Return2PC(c, PaymentResponse(TRUE, calls[c].gid, "completed",
                               Msg("Payment processed successfully", "", 0, 0)), h0, ops)
    /\ UNCHANGED <<processed_transactions, active_tokens, uuid>>
    /\ UNCHANGED <<now, pending, client, sweep, sup>>

\* ------------------------------------------------------------- environment
\* The gateway process stops and serve() runs again: the token table is read
\* back from the file that every mint rewrote, PROCESSED_KEYS starts empty,
\* the handlers that were running are gone.
GatewayRestart ==
    /\ hist.nfaults < MaxFaults
    /\ PROCESSED_KEYS' = EmptyMap
    /\ calls' = [c \in 1..MaxWorkers |-> IdleCall]
    /\ hist' = [hist EXCEPT !.nfaults = @ + 1, !.gwRestarted = TRUE]
    /\ UNCHANGED <<users, transactions, processed_transactions, prepared_transactions,
                   active_tokens, last, uuid>>
    /\ UNCHANGED <<now, pending, client, sweep, sup>>

\* A bank process stops and BankServicer.__init__ runs again: users, ledger
\* and processed transactions come back from their files, the prepared table
\* starts empty.
BankRestart(b) ==
    /\ hist.nfaults < MaxFaults
    /\ prepared_transactions[b] # EmptyMap
    /\ prepared_transactions' = [prepared_transactions EXCEPT ![b] = EmptyMap]
    /\ hist' = [hist EXCEPT !.nfaults = @ + 1,
                            !.lost = @ \cup DOMAIN prepared_transactions[b]]
    /\ UNCHANGED <<users, transactions, processed_transactions, active_tokens,
                   PROCESSED_KEYS, calls, last, uuid>>
    /\ UNCHANGED <<now, pending, client, sweep, sup>>

\* The bank runs ProcessTransaction.
ApplyTransaction(b, acct, type, amount, pid) ==
    /\ LET r == ProcessTransaction(users[b], transactions[b], processed_transactions[b],
                                   acct, type, amount, pid, uuid.entry + 1)
       IN /\ users' = [users EXCEPT ![b] = r.bal]
          /\ transactions' = [transactions EXCEPT ![b] = r.led]
          /\ processed_transactions' = [processed_transactions EXCEPT ![b] = r.proc]
    /\ uuid' = [uuid EXCEPT !.entry = @ + 1]
    /\ hist' = [hist EXCEPT !.ncalls = @ + 1]
    /\ UNCHANGED <<prepared_transactions, active_tokens, PROCESSED_KEYS, calls, last>>
    /\ UNCHANGED <<now, pending, client, sweep, sup>>

\* A caller of the bank's direct ProcessTransaction RPC.
DirectTransaction(b, acct, type, amount, pid) ==
    /\ hist.ncalls < MaxCalls
    /\ ApplyTransaction(b, acct, type, amount, pid)

\* What a caller of ProcessTransaction may send: a debit of the first account
\* with or without a payment id, and a credit, a type the bank does not know
\* and an account it does not have.
DirectRequests ==
    {[account_id |-> "ACC001", type |-> "debit", amount |-> a, payment_id |-> p] :
        a \in Amounts, p \in {NoPid, 1}}
    \cup {[account_id |-> "ACC001", type |-> "credit", amount |-> 1, payment_id |-> NoPid],
          [account_id |-> "ACC001", type |-> "refund", amount |-> 1, payment_id |-> NoPid],
          [account_id |-> UnknownAccount, type |-> "debit", amount |-> 1, payment_id |-> NoPid]}

\* Sessions are opened by either user, at the first bank; the accounts of the
\* second bank take part as receivers.
Next ==
    \/ \E u \in Users \cup {"nobody"}, pw \in {"pass1", "pass2"},
          b \in {"Bank1", UnknownBank} :
          Login(u, pw, b)
    \/ \E c \in 1..MaxWorkers, req \in Requests : StartCall(c, req)
    \/ \E c \in 1..MaxWorkers, o \in RpcOutcomes : GetBalanceStep(c, o)
    \/ \E c \in 1..MaxWorkers, o \in RpcOutcomes, ao \in AbortOutcomes :
          PrepareSenderStep(c, o, ao)
    \/ \E c \in 1..MaxWorkers, o \in RpcOutcomes, ao, ar \in AbortOutcomes :
          PrepareReceiverStep(c, o, ao, ar)
    \/ \E c \in 1..MaxWorkers, o \in RpcOutcomes, ao, ar \in AbortOutcomes :
          CommitSenderStep(c, o, ao, ar)
    \/ \E c \in 1..MaxWorkers, o \in RpcOutcomes : CommitReceiverStep(c, o)
    \/ GatewayRestart
    \/ \E b \in Banks : BankRestart(b)
    \/ \E d \in DirectRequests :
          DirectTransaction("Bank1", d.account_id, d.type, d.amount, d.payment_id)

Spec == Init /\ [][Next]_vars

\* ------------------------------------------------- sessions and their expiry
\* time.time() moves past the next expiry instant.
Tick ==
    /\ now < MaxTime
    /\ now' = now + 1
    /\ UNCHANGED <<users, transactions, processed_transactions, prepared_transactions,
                   active_tokens, PROCESSED_KEYS, calls, last, uuid, hist, pending, client, sweep, sup>>

\* The table the sweep builds: the entries with "expires > current_time".
Kept(tokens, t) == [x \in {y \in DOMAIN tokens : tokens[y].expires > t} |-> tokens[x]]

\* cleanup_expired_tokens with no worker running beside it: the table is
\* replaced by the entries with "expires > current_time".
cleanup_expired_tokens ==
    /\ sweep.pc = "idle"
    /\ \E t \in DOMAIN active_tokens : ~(active_tokens[t].expires > now)
    /\ active_tokens' = Kept(active_tokens, now)
    /\ UNCHANGED <<users, transactions, processed_transactions, prepared_transactions,
                   PROCESSED_KEYS, calls, last, uuid, now, hist, pending, client, sweep, sup>>

HistoryLimit == 10

\* The bank's GetTransactionHistory: how many entries it returns.
BankHistory(b, acct, limit) ==
    IF ~AccountExists(acct)
    THEN [success |-> FALSE, count |-> 0, code |-> "NOT_FOUND"]
    ELSE IF acct \notin DOMAIN transactions[b]
    THEN [success |-> TRUE, count |-> 0, code |-> "OK"]
    ELSE [success |-> TRUE, count |-> Min(Len(transactions[b][acct]), limit), code |-> "OK"]

\* What the observer keeps of a CheckBalance or GetTransactionHistory call.
Read(op, token, code, success, value) ==
    [n |-> hist.ncalls + 1, op |-> op, token |-> token, code |-> code,
     success |-> success, value |-> value]

\* The two reading RPCs of the gateway leave every table as it is.
Reads(r, acted) ==
    /\ hist' = [hist EXCEPT !.ncalls = @ + 1, !.read = r,
                            !.stale = @ \/ (acted /\ Expired(r.token))]
    /\ UNCHANGED <<users, transactions, processed_transactions, prepared_transactions,
                   active_tokens, PROCESSED_KEYS, calls, last, uuid, now, pending, client, sweep, sup>>

\* CheckBalance: the interceptor, then the handler with the metadata token.
CheckBalance(mtoken, account_id, o) ==
    /\ hist.ncalls < MaxCalls
    /\ o \in {"ok", "unavailable"}
    /\ hist.nfaults + FaultCount(o) <= MaxFaults
    /\ IF ~InterceptorAccepts(mtoken)
       THEN o = "ok" /\ Reads(Read("CheckBalance", mtoken, "UNAUTHENTICATED", FALSE, 0), FALSE)
       ELSE IF account_id # "" /\ account_id # active_tokens[mtoken].account
       THEN o = "ok" /\ Reads(Read("CheckBalance", mtoken, "PERMISSION_DENIED", FALSE, 0), FALSE)
       ELSE LET r == GetBalance(active_tokens[mtoken].bank, active_tokens[mtoken].account)
            IN IF o # "ok"
               THEN Reads(Read("CheckBalance", mtoken, "UNAVAILABLE", FALSE, 0), TRUE)
               ELSE Reads(Read("CheckBalance", mtoken, r.code, r.success, r.balance), TRUE)

\* GetTransactionHistory: the interceptor, then the handler with the metadata
\* token.
GetTransactionHistory(mtoken, account_id, o) ==
    /\ hist.ncalls < MaxCalls
    /\ o \in {"ok", "unavailable"}
    /\ hist.nfaults + FaultCount(o) <= MaxFaults
    /\ IF ~InterceptorAccepts(mtoken)
       THEN o = "ok" /\ Reads(Read("GetTransactionHistory", mtoken, "UNAUTHENTICATED", FALSE, 0),
                              FALSE)
       ELSE IF account_id # active_tokens[mtoken].account
       THEN o = "ok" /\ Reads(Read("GetTransactionHistory", mtoken, "PERMISSION_DENIED", FALSE, 0),
                              FALSE)
       ELSE LET r == BankHistory(active_tokens[mtoken].bank, active_tokens[mtoken].account,
                                 HistoryLimit)
            IN IF o # "ok"
               THEN Reads(Read("GetTransactionHistory", mtoken, "UNAVAILABLE", FALSE, 0), TRUE)
               ELSE Reads(Read("GetTransactionHistory", mtoken, r.code, r.success, r.count), TRUE)

\* A client logs in while the gateway holds fewer than MaxSessions sessions.
SessionLogin(username, password, bank_name) ==
    /\ Cardinality(DOMAIN active_tokens) < MaxSessions
    /\ uuid.token < MaxSessions
    /\ Authenticate(username, password, bank_name)

\* The requests of callers that hold all the tokens handed out so far and put
\* any of them into the metadata and any of them into the body.
SessionRequests ==
    {Request(m, t, SELF, Receiver, 1, 1) : m \in DOMAIN active_tokens, t \in DOMAIN active_tokens}

\* Sessions come and go while time passes; payments run one at a time and no
\* RPC of the coordinator fails.
SessionNext ==
    \/ \E u \in Users : SessionLogin(u, PasswordOf(u), "Bank1")
    \/ Tick
    \/ cleanup_expired_tokens
    \/ \E req \in SessionRequests : StartCall(1, req)
    \/ GetBalanceStep(1, "ok")
    \/ PrepareSenderStep(1, "ok", "ok")
    \/ PrepareReceiverStep(1, "ok", "ok", "ok")
    \/ CommitSenderStep(1, "ok", "ok", "ok")
    \/ CommitReceiverStep(1, "ok")
    \/ \E m \in DOMAIN active_tokens, a \in {"", "ACC001"}, o \in {"ok", "unavailable"} :
          CheckBalance(m, a, o)
    \/ \E m \in DOMAIN active_tokens, a \in {"ACC001", "ACC002"}, o \in {"ok", "unavailable"} :
          GetTransactionHistory(m, a, o)

SessionSpec == Init /\ [][SessionNext]_vars

\* ------------------------------------- the sweep beside the gateway's workers
\* cleanup_expired_tokens runs on a timer thread of its own while the workers
\* serve RPCs, and takes no lock. It builds the new table from the one in
\* use ...
cleanup_build ==
    /\ sweep.pc = "idle"
    /\ sweep' = [pc |-> "built", kept |-> Kept(active_tokens, now)]
    /\ UNCHANGED <<users, transactions, processed_transactions, prepared_transactions,
                   active_tokens, PROCESSED_KEYS, calls, last, uuid, now, hist, pending,
                   client, sup>>

\* ... and then binds the global name active_tokens to it, whatever the
\* workers have put into the old table in between.
cleanup_rebind ==
    /\ sweep.pc = "built"
    /\ active_tokens' = sweep.kept
    /\ sweep' = NoSweep
    /\ UNCHANGED <<users, transactions, processed_transactions, prepared_transactions,
                   PROCESSED_KEYS, calls, last, uuid, now, hist, pending, client, sup>>

\* Logins, the clock, the sweep step by step, and callers that present any
\* token handed out so far.
SweepNext ==
    \/ \E u \in Users : SessionLogin(u, PasswordOf(u), "Bank1")
    \/ Tick
    \/ cleanup_build
    \/ cleanup_rebind
    \/ \E m \in DOMAIN hist.minted, o \in {"ok", "unavailable"} : CheckBalance(m, "", o)

SweepSpec == Init /\ [][SweepNext]_vars

\* ------------------------------------------------------- one bank, by itself
\* The bank service called directly, RPC by RPC, by any caller: the handlers
\* PrepareTransaction, CommitTransaction, AbortTransaction and
\* ProcessTransaction of one bank, in any order and with any arguments.
BankTids == {Tid(g, "sender", 1) : g \in 1..2}
BankAmounts == 1..(MaxAmount + 1)

\* What the observer keeps of a bank RPC: its number, the operation and its arguments,
\* whether the id was in the prepared table when it arrived, and the flag of
\* the response.
Direct(op, b, tid, args, ok) ==
    [n |-> hist.ncalls + 1, op |-> op, bank |-> b, tid |-> tid, args |-> args,
     known |-> tid \in DOMAIN prepared_transactions[b], ok |-> ok]

\* The observer's view of a PrepareTransaction call: the vote it remembers for
\* the id and whether a ready vote is outstanding.
Voted(h, b, tid, acct, type, amount, r) ==
    [h EXCEPT !.ncalls = @ + 1,
              !.direct = Direct("prepare", b, tid, <<acct, type, amount>>, r.ready),
              !.open = IF r.ready THEN @ \cup {<<b, tid>>} ELSE @,
              !.votes = IF <<b, tid>> \in DOMAIN @ THEN @
                        ELSE @ @@ (<<b, tid>> :>
                            [ready |-> r.ready, args |-> <<acct, type, amount>>])]

\* A prepare that reserves the funds of a debit by taking them off the balance.
BankPrepareReserving(b, tid, acct, type, amount) ==
    /\ hist.ncalls < MaxBankCalls
    /\ LET r == PrepareTransaction(prepared_transactions[b], users[b], tid, acct, type, amount)
       IN /\ prepared_transactions' = [prepared_transactions EXCEPT ![b] = r.prep]
          /\ users' = IF r.ready /\ type = "debit" /\ tid \notin DOMAIN prepared_transactions[b]
                      THEN [users EXCEPT ![b][UsernameOf(acct)] = @ - amount]
                      ELSE users
          /\ hist' = Voted(hist, b, tid, acct, type, amount, r)
    /\ UNCHANGED <<transactions, processed_transactions, active_tokens,
                   PROCESSED_KEYS, calls, last, uuid>>
    /\ UNCHANGED <<now, pending, client, sweep, sup>>

BankPrepare(b, tid, acct, type, amount) ==
    /\ hist.ncalls < MaxBankCalls
    /\ LET r == PrepareTransaction(prepared_transactions[b], users[b], tid, acct, type, amount)
       IN /\ prepared_transactions' = [prepared_transactions EXCEPT ![b] = r.prep]
          /\ hist' = Voted(hist, b, tid, acct, type, amount, r)
    /\ UNCHANGED <<users, transactions, processed_transactions, active_tokens,
                   PROCESSED_KEYS, calls, last, uuid>>
    /\ UNCHANGED <<now, pending, client, sweep, sup>>

\* The votes the observer remembers, without the one for tid at bank b.
Forget(votes, b, tid) == [k \in DOMAIN votes \ {<<b, tid>>} |-> votes[k]]

BankCommit(b, tid) ==
    /\ hist.ncalls < MaxBankCalls
    /\ LET r == CommitTransaction(prepared_transactions[b], users[b], transactions[b], tid)
       IN /\ prepared_transactions' = [prepared_transactions EXCEPT ![b] = r.prep]
          /\ users' = [users EXCEPT ![b] = r.bal]
          /\ transactions' = [transactions EXCEPT ![b] = r.led]
          /\ hist' = [hist EXCEPT !.ncalls = @ + 1,
                                  !.direct = Direct("commit", b, tid, <<>>, r.success),
                                  !.open = @ \ {<<b, tid>>},
                                  !.votes = Forget(@, b, tid)]
    /\ UNCHANGED <<processed_transactions, active_tokens, PROCESSED_KEYS, calls, last, uuid>>
    /\ UNCHANGED <<now, pending, client, sweep, sup>>

BankAbort(b, tid) ==
    /\ hist.ncalls < MaxBankCalls
    /\ LET r == AbortTransaction(prepared_transactions[b], tid)
       IN /\ prepared_transactions' = [prepared_transactions EXCEPT ![b] = r.prep]
          /\ hist' = [hist EXCEPT !.ncalls = @ + 1,
                                  !.direct = Direct("abort", b, tid, <<>>, r.success),
                                  !.open = @ \ {<<b, tid>>},
                                  !.votes = Forget(@, b, tid)]
    /\ UNCHANGED <<users, transactions, processed_transactions, active_tokens,
                   PROCESSED_KEYS, calls, last, uuid>>
    /\ UNCHANGED <<now, pending, client, sweep, sup>>

\* ProcessTransaction called at the bank; the observer keeps the answer, the
\* first answer given to each payment id, and whether the id had been
\* answered before.
BankProcess(b, acct, type, amount, pid) ==
    /\ hist.ncalls < MaxBankCalls
    /\ LET r == ProcessTransaction(users[b], transactions[b], processed_transactions[b],
                                   acct, type, amount, pid, uuid.entry + 1)
           answer == [success |-> r.success, message |-> r.message]
       IN /\ users' = [users EXCEPT ![b] = r.bal]
          /\ transactions' = [transactions EXCEPT ![b] = r.led]
          /\ processed_transactions' = [processed_transactions EXCEPT ![b] = r.proc]
          /\ hist' = [hist EXCEPT
                        !.ncalls = @ + 1,
                        !.direct = Direct("process", b, Tid(NoGid, "direct", pid),
                                          <<acct, type, amount>>, r.success),
                        !.process = [pid |-> pid, success |-> r.success,
                                     message |-> r.message,
                                     replay |-> pid # NoPid /\ pid \in DOMAIN hist.answers],
                        !.answers = IF pid = NoPid \/ pid \in DOMAIN @ THEN @
                                    ELSE @ @@ (pid :> answer)]
    /\ uuid' = [uuid EXCEPT !.entry = @ + 1]
    /\ UNCHANGED <<prepared_transactions, active_tokens, PROCESSED_KEYS, calls, last>>
    /\ UNCHANGED <<now, pending, client, sweep, sup>>

BankNext ==
    \/ \E tid \in BankTids, acct \in {"ACC001", UnknownAccount}, type \in {"debit", "credit"},
          amount \in BankAmounts :
          BankPrepare("Bank1", tid, acct, type, amount)
    \/ \E tid \in BankTids : BankCommit("Bank1", tid)
    \/ \E tid \in BankTids : BankAbort("Bank1", tid)
    \/ \E d \in DirectRequests :
          BankProcess("Bank1", d.account_id, d.type, d.amount, d.payment_id)

BankSpec == Init /\ [][BankNext]_vars

\* ------------------------------------------------------------------ claims
\* ------------------------------------------------------------------ client
\* One PaymentClient against the gateway: its main thread runs the commands
\* of the user, its monitor thread runs _connectivity_monitor_loop.  The user
\* is the first one; the payments go to the usual receiver; the gateway
\* serves the calls of this client one at a time, on its first worker.
Threads == {"main", "monitor"}
ClientWorker == 1
ClientUser == "user1"
ClientPayments == {[receiver |-> Receiver, amount |-> a] : a \in Amounts}

serverVars == <<users, transactions, processed_transactions, prepared_transactions,
                active_tokens, PROCESSED_KEYS, calls, last, uuid, now, sweep, hist>>

\* The record make_payment writes: receiver account, receiver bank, amount.
PendingRecord(args) ==
    [receiver_account |-> args.receiver.account, receiver_bank |-> args.receiver.bank,
     amount |-> args.amount]

\* _add_to_pending_transactions: write {key}.json, over an older one if any.
add_to_pending_transactions(q, key, transaction) == (key :> transaction) @@ q

\* _remove_from_pending_transactions: remove {key}.json if it exists.
remove_from_pending_transactions(q, key) == [k \in DOMAIN q \ {key} |-> q[k]]

\* _send_payment, the request: the client's token in the metadata and in the
\* body, sender "self".
ClientRequest(t) ==
    Request(client.token, client.token, SELF, client[t].args.receiver,
            client[t].args.amount, client[t].pid)

\* _send_payment, the result: (True, message) for a response with success,
\* (False, message) for one without, (False, "RPC error ...") for an RpcError.
Report(t, ret) ==
    IF ret.code = "OK"
    THEN [kind |-> "response", code |-> "OK", resp |-> ret.resp,
          cached |-> ret.lookup.hit, by |-> t]
    ELSE [kind |-> "rpc_error", code |-> ret.code, resp |-> NoResponse,
          cached |-> FALSE, by |-> t]

RpcError(t, code) ==
    [kind |-> "rpc_error", code |-> code, resp |-> NoResponse, cached |-> FALSE, by |-> t]

\* A caller that removes the record whatever _send_payment returned.
ConfirmedAlways(report) == TRUE

\* "if success:" in make_payment and "if retry_success:" in
\* retry_pending_transactions.
Confirmed(report) == report.kind = "response" /\ report.resp.success

\* What thread t does with the result of _send_payment: remove the record on
\* success, leave it otherwise; make_payment returns, the loop of
\* retry_pending_transactions goes on.
Handle(t, report) ==
    /\ pending' = IF Confirmed(report)
                  THEN remove_from_pending_transactions(pending, client[t].pid)
                  ELSE pending
    /\ client' = [client EXCEPT
                    !.reported[client[t].pid] = report,
                    ![t] = IF t = "main" THEN IdleThread
                           ELSE [IdleThread EXCEPT !.pc = "next", !.todo = client[t].todo]]

\* A response has reached the client and the thread that waits for it has not
\* run yet.
Undelivered ==
    \E t \in Threads : client[t].pc = "wait" /\ calls[ClientWorker].pc = "idle"

\* authenticate: the token of the Authenticate response is kept.
authenticate ==
    /\ client.token = NoToken
    /\ \E t \in DOMAIN active_tokens : client' = [client EXCEPT !.token = t]
    /\ UNCHANGED <<serverVars, pending, sup>>

\* make_payment, up to the send: connected and authenticated, the record is
\* written under the payment id.
make_payment(pid, args) ==
    /\ client.token # NoToken
    /\ client.main.pc = "idle"
    /\ pending' = add_to_pending_transactions(pending, pid, PendingRecord(args))
    /\ client' = [client EXCEPT !.main = [IdleThread EXCEPT !.pc = "send", !.pid = pid,
                                                            !.args = args]]
    /\ UNCHANGED <<serverVars, sup>>

\* _send_payment: the stub call.  The gateway takes it once its worker is
\* idle, or it is not reachable and the call raises UNAVAILABLE at once.
send_payment(t, o) ==
    /\ client[t].pc = "send"
    /\ ~Undelivered
    /\ IF o = "ok"
       THEN /\ ProcessPayment(ClientWorker, ClientRequest(t))
            /\ client' = [client EXCEPT ![t].pc = "wait",
                                        !.sent = @ \cup {client[t].pid}]
            /\ UNCHANGED pending
       ELSE /\ hist.nfaults < MaxFaults
            /\ hist' = [hist EXCEPT !.nfaults = @ + 1]
            /\ pending' = pending
            /\ client' = [client EXCEPT
                            !.sent = @ \cup {client[t].pid},
                            !.reported[client[t].pid] = RpcError(t, "UNAVAILABLE"),
                            ![t] = IF t = "main" THEN IdleThread
                                   ELSE [IdleThread EXCEPT !.pc = "next",
                                                           !.todo = client[t].todo]]
            /\ UNCHANGED <<users, transactions, processed_transactions,
                           prepared_transactions, active_tokens, PROCESSED_KEYS, calls,
                           last, uuid, now, sweep, sup>>

\* The stub call of thread t returns what the handler returned.
receive(t) ==
    /\ client[t].pc = "wait"
    /\ calls[ClientWorker].pc = "idle"
    /\ Handle(t, Report(t, last))
    /\ UNCHANGED <<serverVars, sup>>

\* One round of _connectivity_monitor_loop.  The probe is a CheckBalance
\* without a token, which the interceptor refuses, so every round closes the
\* channel, which ends the call the main thread has in flight with an
\* RpcError, and opens a new one; then, with a token and a record in the
\* directory, retry_pending_transactions lists the directory.
connectivity_monitor_loop ==
    /\ client.monitor.pc = "idle"
    /\ client.main.pc = "wait" \/ (client.token # NoToken /\ DOMAIN pending # {})
    /\ LET cancelled == client.main.pc = "wait"
           c1 == IF cancelled
                 THEN [client EXCEPT !.reported[client.main.pid] = RpcError("main", "CANCELLED"),
                                     !.main = IdleThread]
                 ELSE client
       IN client' = IF client.token # NoToken /\ DOMAIN pending # {}
                    THEN [c1 EXCEPT !.monitor = [IdleThread EXCEPT !.pc = "next",
                                                                   !.todo = DOMAIN pending]]
                    ELSE c1
    /\ UNCHANGED <<serverVars, pending, sup>>

\* retry_pending_transactions, the head of its loop: the next listed file is
\* opened and read; the thread ends with the exception when the file has gone
\* since the listing.
retry_pending_transactions ==
    /\ client.monitor.pc = "next"
    /\ IF client.monitor.todo = {}
       THEN client' = [client EXCEPT !.monitor = IdleThread]
       ELSE \E p \in client.monitor.todo :
               client' = [client EXCEPT !.monitor =
                   IF p \notin DOMAIN pending
                   THEN [IdleThread EXCEPT !.pc = "dead"]
                   ELSE [IdleThread EXCEPT
                            !.pc = "send", !.pid = p,
                            !.args = [receiver |-> [bank |-> pending[p].receiver_bank,
                                                    account |-> pending[p].receiver_account],
                                      amount |-> pending[p].amount],
                            !.todo = client.monitor.todo \ {p}]]
    /\ UNCHANGED <<serverVars, pending, sup>>

\* A step of the handler that serves the client; a bank may be unreachable
\* before the commit phase.
GatewayStep(o) ==
    \/ GetBalanceStep(ClientWorker, o)
    \/ PrepareSenderStep(ClientWorker, o, "ok")
    \/ PrepareReceiverStep(ClientWorker, o, "ok", "ok")
    \/ CommitSenderStep(ClientWorker, "ok", "ok", "ok") /\ o = "ok"
    \/ CommitReceiverStep(ClientWorker, "ok") /\ o = "ok"

ClientNext ==
    \/ Login(ClientUser, PasswordOf(ClientUser), "Bank1")
    \/ authenticate
    \/ \E p \in PaymentIds, args \in ClientPayments : make_payment(p, args)
    \/ \E t \in Threads, o \in {"ok", "unavailable"} : send_payment(t, o)
    \/ \E t \in Threads : receive(t)
    \/ connectivity_monitor_loop
    \/ retry_pending_transactions
    \/ \E o \in {"ok", "unavailable"} : GatewayStep(o)

ClientSpec == Init /\ [][ClientNext]_vars

\* The monitor loop runs again after every sleep, a thread that can run does,
\* the pool serves every request it has, and a handler whose bank answers
\* goes on.
ClientFairness ==
    /\ WF_vars(connectivity_monitor_loop)
    /\ WF_vars(retry_pending_transactions)
    /\ \A t \in Threads :
          /\ WF_vars(receive(t))
          /\ SF_vars(send_payment(t, "ok"))
    /\ WF_vars(GatewayStep("ok"))

ClientLiveSpec == ClientSpec /\ ClientFairness

\* ------------------------------------------- client: connection and monitor
\* The PaymentClient of run_client_menu with its connection: the foreground
\* connects, calls and disconnects from the menu, and every monitor thread it
\* has started runs _connectivity_monitor_loop. The statements of the two
\* sides interleave; the client takes no lock.
Alive(t) == sup.thread[t].pc \notin {"unborn", "dead"}

\* A check that never finds a monitor running.
MonitorRunningNever == FALSE

\* "self.connectivity_thread and self.connectivity_thread.is_alive()".
MonitorRunning == sup.connectivity_thread # 0 /\ Alive(sup.connectivity_thread)

\* start_connectivity_monitor past its check: the stop flag is cleared and a
\* new thread is started and remembered.
Spawned(s) ==
    LET n == Cardinality({t \in 1..MaxThreads : s.thread[t].pc # "unborn"}) + 1
    IN [s EXCEPT !.stop_monitoring = FALSE, !.connectivity_thread = n,
                 !.thread[n].pc = "loop"]

CanSpawn == \E t \in 1..MaxThreads : sup.thread[t].pc = "unborn"

\* connect() up to "self.is_connected = True": a new channel and stub.
Connected(s) == [s EXCEPT !.channel = "open", !.is_connected = TRUE]

\* channel.close(): the calls in flight on the channel end with CANCELLED. The
\* observer notes what the closing side knew of the gateway when it cut a call
\* of the foreground.
ChannelClosed(s, knew) ==
    IF s.channel = "none" THEN s
    ELSE [s EXCEPT !.channel = "closed",
                   !.fg = IF @ = "rpc" THEN "menu" ELSE @,
                   !.cut = IF s.fg = "rpc" THEN knew ELSE @]

\* The observer's note that a connect() of the foreground has returned.
Returned(s) == [s EXCEPT !.fg = "menu",
                         !.after = IF @ = "closed" THEN "reopened" ELSE @]

\* The probe of the monitor: CheckBalance with the metadata ('test', 'test'),
\* which holds no token, so a gateway that is reached answers through its
\* interceptor.
Probe(o) ==
    IF o = "unavailable" THEN "UNAVAILABLE"
    ELSE IF InterceptorAccepts(NoToken) THEN "OK"
    ELSE "UNAUTHENTICATED"

\* Menu choice 1: connect(), offered while the client is not connected.
FgConnect ==
    /\ sup.fg = "menu" /\ ~sup.is_connected
    /\ sup' = [Connected(sup) EXCEPT !.fg = "start"]
    /\ UNCHANGED <<serverVars, pending, client>>

\* ... its start_connectivity_monitor: the check ...
FgStart ==
    /\ sup.fg = "start"
    /\ sup' = IF MonitorRunning
              THEN [Returned(sup) EXCEPT !.skipped = @ \cup {"foreground"}]
              ELSE [sup EXCEPT !.fg = "spawn"]
    /\ UNCHANGED <<serverVars, pending, client>>

\* ... and the start of a thread.
FgSpawn ==
    /\ sup.fg = "spawn" /\ CanSpawn
    /\ sup' = Returned(Spawned(sup))
    /\ UNCHANGED <<serverVars, pending, client>>

\* A call of the foreground on the channel (check_balance, make_payment) ...
FgCall ==
    /\ sup.fg = "menu" /\ sup.is_connected /\ sup.channel = "open"
    /\ sup' = [sup EXCEPT !.fg = "rpc"]
    /\ UNCHANGED <<serverVars, pending, client>>

\* ... and its answer.
FgReturn ==
    /\ sup.fg = "rpc"
    /\ sup' = [sup EXCEPT !.fg = "menu", !.answered = TRUE]
    /\ UNCHANGED <<serverVars, pending, client>>

\* Menu choice 8: close(). stop_connectivity_monitor sets the flag and joins
\* the thread for at most a second ...
FgCloseStop ==
    /\ sup.fg = "menu" /\ sup.is_connected
    /\ sup' = [sup EXCEPT !.stop_monitoring = TRUE, !.fg = "join", !.after = "closing"]
    /\ UNCHANGED <<serverVars, pending, client>>

\* join(timeout=1.0) returns when the thread has ended, or after its second
\* while the thread sleeps out its interval or waits for the probe's answer.
JoinReturns ==
    ~MonitorRunning \/ sup.thread[sup.connectivity_thread].pc \in {"sleep", "probe"}

\* ... and, the thread ended or not, the channel is closed.
FgCloseChannel ==
    /\ sup.fg = "join"
    /\ JoinReturns
    /\ sup' = IF sup.channel = "none"
              THEN [sup EXCEPT !.fg = "menu", !.after = "closed"]
              ELSE [ChannelClosed(sup, "") EXCEPT !.is_connected = FALSE, !.fg = "menu",
                                                  !.after = "closed"]
    /\ UNCHANGED <<serverVars, pending, client>>

\* _connectivity_monitor_loop, the head of the loop: the thread ends when the
\* stop flag is set; a client that is not connected reconnects without a probe.
MonLoop(t) ==
    /\ sup.thread[t].pc = "loop"
    /\ sup' = IF sup.stop_monitoring
              THEN [sup EXCEPT !.thread[t] = [pc |-> "dead", probe |-> ""]]
              ELSE IF ~sup.is_connected
              THEN [sup EXCEPT !.thread[t] = [pc |-> "close", probe |-> "none"]]
              ELSE [sup EXCEPT !.thread[t] = [pc |-> "probe", probe |-> ""]]
    /\ UNCHANGED <<serverVars, pending, client>>

\* The probe and its "except:", which takes any error for a broken connection.
MonProbe(t, o) ==
    /\ sup.thread[t].pc = "probe"
    /\ sup' = IF Probe(o) = "OK"
              THEN [sup EXCEPT !.thread[t] = [pc |-> "sleep", probe |-> "OK"]]
              ELSE [sup EXCEPT !.is_connected = FALSE,
                               !.thread[t] = [pc |-> "close", probe |-> Probe(o)]]
    /\ UNCHANGED <<serverVars, pending, client>>

\* "if reconnect_needed": the channel is closed ...
MonClose(t) ==
    /\ sup.thread[t].pc = "close"
    /\ sup' = [ChannelClosed(sup, sup.thread[t].probe) EXCEPT !.thread[t].pc = "connect"]
    /\ UNCHANGED <<serverVars, pending, client>>

\* ... and connect() is called: a new channel ...
MonConnect(t) ==
    /\ sup.thread[t].pc = "connect"
    /\ sup' = [Connected(sup) EXCEPT !.thread[t].pc = "start"]
    /\ UNCHANGED <<serverVars, pending, client>>

\* ... and start_connectivity_monitor: the check, and the start of a thread
\* when it finds none running.
MonStart(t) ==
    /\ sup.thread[t].pc = "start"
    /\ MonitorRunning \/ CanSpawn
    /\ sup' = IF MonitorRunning
              THEN [sup EXCEPT !.thread[t].pc = "sleep", !.skipped = @ \cup {"monitor"}]
              ELSE [Spawned(sup) EXCEPT !.thread[t].pc = "sleep"]
    /\ UNCHANGED <<serverVars, pending, client>>

\* time.sleep(check_interval) is over.
MonSleep(t) ==
    /\ sup.thread[t].pc = "sleep"
    /\ sup' = [sup EXCEPT !.thread[t] = [pc |-> "loop", probe |-> ""]]
    /\ UNCHANGED <<serverVars, pending, client>>

SupervisorNext ==
    \/ FgConnect
    \/ FgStart
    \/ FgSpawn
    \/ FgCall
    \/ FgReturn
    \/ FgCloseStop
    \/ FgCloseChannel
    \/ \E t \in 1..MaxThreads : MonLoop(t)
    \/ \E t \in 1..MaxThreads, o \in {"ok", "unavailable"} : MonProbe(t, o)
    \/ \E t \in 1..MaxThreads : MonClose(t)
    \/ \E t \in 1..MaxThreads : MonConnect(t)
    \/ \E t \in 1..MaxThreads : MonStart(t)
    \/ \E t \in 1..MaxThreads : MonSleep(t)

SupervisorSpec == Init /\ [][SupervisorNext]_vars

LastPid == last.req.payment_id
LastGid == last.resp.transaction_id
LastSenderTx == Tid(LastGid, "sender", LastPid)
LastReceiverTx == Tid(LastGid, "receiver", LastPid)
LastAuthed == last.returned /\ last.authed

\* Some ledger of some bank has an entry with this id.
HasEntry(tid) ==
    \E b \in Banks, a \in AccountIds :
        \E i \in DOMAIN transactions[b][a] : transactions[b][a][i].transaction_id = tid

\* The debit entries, over all ledgers, made for the sender of payment id p.
SenderDebits(p) ==
    {x \in PidLedger(transactions, p) :
        x[4].transaction_id.role = "sender" /\ x[4].type = "debit"}

\* C1: for a payment id whose calls were sent one after another to a gateway
\* that kept running, the ledger entries and the balance changes made for that
\* id stay exactly what they were when the first call returned, and every call
\* returns the response (success, status, transaction id, message) of the first.
C1_Idempotent ==
    \A p \in DOMAIN hist.first :
        (p \notin hist.overlap /\ ~hist.gwRestarted) =>
            /\ PidLedger(transactions, p) = hist.first[p].ledger
            /\ PidApplied(hist.applied, p) = hist.first[p].applied
            /\ (LastAuthed /\ LastPid = p) => last.resp = hist.first[p].resp

C1_Witness ==
    \E p \in DOMAIN hist.first :
        /\ p \notin hist.overlap /\ ~hist.gwRestarted
        /\ hist.returns[p] >= 2
        /\ hist.first[p].resp.status = "completed"
        /\ LastAuthed /\ LastPid = p

\* C2: when calls with the same payment id overlap at a gateway that keeps
\* running and no RPC fails, the sender is debited at most once for that id.
C2_ConcurrentDebitedOnce ==
    \A p \in PaymentIds :
        (p \in hist.overlap /\ hist.nfaults = 0) => Cardinality(SenderDebits(p)) <= 1

\* C3: when a payment id has completed and the gateway has restarted, retries
\* of that id (sent one after another) debit the sender no second time.
C3_RestartDebitedOnce ==
    \A p \in DOMAIN hist.first :
        (hist.first[p].resp.status = "completed" /\ hist.gwRestarted
            /\ p \notin hist.overlap) =>
            Cardinality(SenderDebits(p)) <= 1

\* C4: as long as no RPC has failed or timed out and no process has restarted,
\* a call that returns has status completed or failed, and the debit of its
\* transaction is in a ledger exactly if the credit is.
C4_FaultFreeAtomic ==
    (hist.nfaults = 0 /\ LastAuthed) =>
        /\ last.resp.status \in {"completed", "failed"}
        /\ HasEntry(LastSenderTx) <=> HasEntry(LastReceiverTx)
        /\ (LastSenderTx \in DOMAIN hist.applied) <=> (LastReceiverTx \in DOMAIN hist.applied)

C4_Witness ==
    /\ hist.nfaults = 0 /\ LastAuthed /\ hist.concurrent
    /\ last.resp.status = "completed"
    /\ HasEntry(LastSenderTx) /\ HasEntry(LastReceiverTx)

\* The call that returned last reports a payment between distinct accounts as
\* completed.
LastCompletedTransfer ==
    /\ LastAuthed /\ last.resp.status = "completed"
    /\ LastGid \in DOMAIN hist.attempts
    /\ ~hist.attempts[LastGid].self

\* C5: a payment between distinct accounts that is reported completed has
\* lowered the sender's balance by exactly the amount and raised the
\* receiver's by exactly the amount.
C5_Conservation ==
    LastCompletedTransfer =>
        /\ LastSenderTx \in DOMAIN hist.applied
        /\ LastReceiverTx \in DOMAIN hist.applied
        /\ hist.applied[LastSenderTx] = 0 - hist.attempts[LastGid].amount
        /\ hist.applied[LastReceiverTx] = hist.attempts[LastGid].amount

C5_Witness == LastCompletedTransfer /\ HasEntry(LastSenderTx) /\ HasEntry(LastReceiverTx)

\* C6: a call that returns status failed has changed no balance and left no
\* ledger entry under either of its transaction ids.
C6_NoGhostDebit ==
    (LastAuthed /\ last.resp.status = "failed") =>
        /\ ~HasEntry(LastSenderTx) /\ ~HasEntry(LastReceiverTx)
        /\ LastSenderTx \notin DOMAIN hist.applied
        /\ LastReceiverTx \notin DOMAIN hist.applied

\* C7: status error is returned only when the sender bank has acknowledged
\* the commit of the debit and the receiver bank has not acknowledged the
\* commit of the credit.
C7_ErrorOnlyAfterSenderAck ==
    (last.returned /\ last.resp.status = "error") =>
        /\ LastSenderTx \in hist.acked
        /\ LastReceiverTx \notin hist.acked

C7_Witness == last.returned /\ last.resp.status = "error" /\ HasEntry(LastSenderTx)

\* C8: a payment between distinct accounts is reported completed only after
\* both banks have answered CommitTransaction with success for its ids.
C8_CompletedOnlyAfterBothAcks ==
    LastCompletedTransfer =>
        /\ LastSenderTx \in hist.acked
        /\ LastReceiverTx \in hist.acked

C8_Witness ==
    /\ LastCompletedTransfer
    /\ LastSenderTx \in hist.acked /\ LastReceiverTx \in hist.acked
    /\ SenderDebits(LastPid) # {}

\* C9: no account balance is ever negative.
C9_NonNegativeBalances ==
    \A b \in Banks, u \in Users : users[b][u] >= 0

\* C10: every account's balance is the sum of its credit entries minus the sum
\* of its debit entries.
C10_BalanceMatchesLedger ==
    \A b \in Banks, a \in AccountIds :
        users[b][UsernameOf(a)] = LedgerSum(transactions[b][a])

C10_Witness ==
    \E b \in Banks, a \in AccountIds :
        /\ \E i \in DOMAIN transactions[b][a] :
              transactions[b][a][i].transaction_id.role \in {"sender", "receiver"}
        /\ \E i \in DOMAIN transactions[b][a] :
              /\ transactions[b][a][i].transaction_id.role = "uuid"
              /\ transactions[b][a][i].transaction_id.gid > 0

\* C11: two PrepareTransaction calls at one bank with the same transaction id
\* and the same arguments, with no commit or abort of that id between them,
\* return the same vote.
C11_PrepareSameVote ==
    LET k == <<hist.direct.bank, hist.direct.tid>> IN
    (hist.direct.op = "prepare" /\ k \in DOMAIN hist.votes
        /\ hist.votes[k].args = hist.direct.args)
        => hist.direct.ok = hist.votes[k].ready

\* C12: AbortTransaction for an id that is not in the prepared table answers
\* success and changes neither balances, ledger, prepared table nor the
\* processed-transaction cache.
C12_AbortUnknownNoEffect ==
    [][(hist'.direct.n # hist.direct.n /\ hist'.direct.op = "abort" /\ ~hist'.direct.known)
          => /\ hist'.direct.ok
             /\ UNCHANGED <<users, transactions, prepared_transactions,
                            processed_transactions>>]_vars

C12_Witness ==
    /\ hist.direct.op = "abort" /\ ~hist.direct.known /\ hist.direct.ok
    /\ prepared_transactions[hist.direct.bank] # EmptyMap

\* The responses the coordinator gives when a bank could not be reached, an
\* RPC failed in transport or a deadline passed before the sender's commit.
TransientFailure(resp) ==
    \/ resp.message.text = "Payment failed" /\ resp.message.inner = "UNAVAILABLE"
    \/ resp.message.text \in {"Transaction timed out during preparation (sender)",
                              "Error communicating with sender bank",
                              "Transaction timed out during preparation (receiver)",
                              "Error communicating with receiver bank"}

\* C14: the idempotency cache never holds an outcome of a transient failure.
C14_TransientNotCached ==
    \A p \in DOMAIN PROCESSED_KEYS : ~TransientFailure(PROCESSED_KEYS[p])

\* C15: a ProcessPayment that finds a cached outcome for its payment id, the
\* status error outcome included, returns that response unchanged and sends no
\* RPC to any bank.
C15_CachedReplayedNoRpc ==
    (LastAuthed /\ last.lookup.hit) =>
        /\ last.resp = last.lookup.cached
        /\ last.rpcs = <<>>

C15_Witness ==
    /\ LastAuthed /\ last.lookup.hit
    /\ last.resp.status = "error"
    /\ last.rpcs = <<>>

\* C16: when a ProcessPayment that names a receiver bank the gateway does not
\* know returns, without having found its payment id in the cache, then it
\* returns success false, status failed and the bank-not-found message, it has
\* sent no RPC, and its response is now the cached outcome of its payment id.
C16_UnknownBankFailsCached ==
    [][(last' # last /\ last'.returned /\ last'.authed /\ ~last'.lookup.hit
            /\ last'.req.receiver_bank \notin Banks)
          => /\ ~last'.resp.success
             /\ last'.resp.status = "failed"
             /\ last'.resp.message.text = "Receiver bank not found"
             /\ last'.rpcs = <<>>
             /\ last'.req.payment_id # NoPid =>
                   /\ last'.req.payment_id \in DOMAIN PROCESSED_KEYS'
                   /\ PROCESSED_KEYS'[last'.req.payment_id] = last'.resp]_vars

\* A retry of such a payment has come back with the cached response.
C16_Witness ==
    /\ LastAuthed /\ last.req.receiver_bank \notin Banks
    /\ last.lookup.hit
    /\ last.lookup.cached.message.text = "Receiver bank not found"
    /\ last.resp = last.lookup.cached

\* The call that returned last asked for a payment to the sender's own account
\* at the sender's own bank.
LastSelfTransfer ==
    /\ LastAuthed
    /\ SenderInfo(last.req.token) = [bank |-> last.req.receiver_bank,
                                     account |-> last.req.receiver_account]

\* C17: a payment to the sender's own account, whose payment id is not in the
\* cache, returns success with status completed and has sent no RPC to any
\* bank.
C17_SelfTransferNoRpc ==
    (LastSelfTransfer /\ ~last.lookup.hit) =>
        /\ last.resp.success
        /\ last.resp.status = "completed"
        /\ last.rpcs = <<>>

\* _send_payment has returned, for payment id p, a response of the gateway
\* that reports a failure no retry changes: not a success, not an RpcError,
\* not a failure to reach a bank.
ReportedNonRetriable(p) ==
    LET r == client.reported[p] IN
    r.kind = "response" /\ ~r.resp.success /\ ~TransientFailure(r.resp)

\* C18: with a fair schedule and finitely many faults, a payment that has a
\* pending record is eventually confirmed by the gateway, its record removed,
\* or reported to the client as a non-retriable failure.
C18_EventuallySettled ==
    \A p \in PaymentIds :
        (p \in DOMAIN pending) ~> (p \notin DOMAIN pending \/ ReportedNonRetriable(p))

\* C19: the first ProcessPayment of a payment id is sent while its record is
\* in the pending directory, and a record leaves the directory only in a step
\* in which _send_payment has returned a success response for its payment id.
C19_PendingLifecycle ==
    [][\A p \in PaymentIds :
          /\ (p \in client'.sent /\ p \notin client.sent) => p \in DOMAIN pending
          /\ (p \in DOMAIN pending /\ p \notin DOMAIN pending') =>
                /\ client'.reported[p].kind = "response"
                /\ client'.reported[p].resp.success]_vars

\* A record written before its first send has been removed after a replay by
\* the monitor received the success response.
C19_Witness ==
    \E p \in client.sent :
        /\ p \notin DOMAIN pending
        /\ client.reported[p].by = "monitor"
        /\ client.reported[p].kind = "response"
        /\ client.reported[p].resp.success

\* C20: when a replay receives the gateway's cached non-retriable failure for
\* a payment id, the client deletes the pending record of that payment id.
C20_CachedFailureDeletes ==
    [][\A p \in PaymentIds :
          (/\ client'.reported[p] # client.reported[p]
           /\ client'.reported[p].by = "monitor"
           /\ client'.reported[p].cached
           /\ ReportedNonRetriable(p)')
              => p \notin DOMAIN pending']_vars

\* The PrepareTransaction and CommitTransaction RPCs of a log, in the order
\* they were sent.
Protocol(rpcs) ==
    LET IsStep(r) == r[1] \in {"PrepareTransaction", "CommitTransaction"}
    IN SelectSeq(rpcs, IsStep)

CoordinatorOrder ==
    <<Rpc("PrepareTransaction", "sender"), Rpc("PrepareTransaction", "receiver"),
      Rpc("CommitTransaction", "sender"), Rpc("CommitTransaction", "receiver")>>

IsPrefix(s, t) == Len(s) <= Len(t) /\ s = SubSeq(t, 1, Len(s))
Sent(rpcs, r) == \E i \in DOMAIN rpcs : rpcs[i] = r

\* The run with global id gid for payment id pid, whose log is rpcs, has kept
\* the order of the coordinator.
RunOrdered(rpcs, gid, pid) ==
    /\ IsPrefix(Protocol(rpcs), CoordinatorOrder)
    /\ (\E role \in {"sender", "receiver"} : Sent(rpcs, Rpc("CommitTransaction", role)))
          => {Tid(gid, "sender", pid), Tid(gid, "receiver", pid)} \subseteq hist.ready
    /\ Sent(rpcs, Rpc("CommitTransaction", "receiver"))
          => Tid(gid, "sender", pid) \in hist.acked

\* C21: in every run of the coordinator, running or returned, the Prepare and
\* Commit RPCs sent so far are a prefix of prepare-sender, prepare-receiver,
\* commit-sender, commit-receiver; a CommitTransaction has been sent only
\* after both banks voted ready, and the one to the receiver only after the
\* sender's returned success.
C21_StepOrder ==
    /\ \A c \in 1..MaxWorkers :
          RunOrdered(calls[c].rpcs, calls[c].gid, calls[c].req.payment_id)
    /\ last.returned => RunOrdered(last.rpcs, LastGid, LastPid)

\* A run has sent all four RPCs and returned completed.
C21_Witness ==
    /\ LastAuthed
    /\ Protocol(last.rpcs) = CoordinatorOrder
    /\ last.resp.status = "completed"

\* C22: when no two calls ran at the same time, any two runs of the
\* coordinator for the same payment id used the same sender transaction id
\* and the same receiver transaction id.
C22_StableTxIds ==
    ~hist.concurrent =>
        \A g1, g2 \in DOMAIN hist.attempts :
            LET pid == hist.attempts[g1].payment_id IN
            (pid # NoPid /\ hist.attempts[g2].payment_id = pid)
                => /\ Tid(g1, "sender", pid) = Tid(g2, "sender", pid)
                   /\ Tid(g1, "receiver", pid) = Tid(g2, "receiver", pid)

\* The accounts, at any bank, whose ledger has an entry with transaction id
\* tid.
AccountsWithEntry(tid) ==
    {a \in AccountIds : \E b \in Banks : \E i \in DOMAIN transactions[b][a] :
        transactions[b][a][i].transaction_id = tid}

\* C23: the debit of a ProcessPayment call is in the ledger of the account
\* of the token that the interceptor validated for that call, the one in the
\* metadata, and of no other account.
C23_DebitsAuthenticatedAccount ==
    LastAuthed =>
        AccountsWithEntry(LastSenderTx) \subseteq {AccountOf(last.req.mtoken.user)}

\* The call that returned last ran the handler past the cache lookup.
FreshRun == LastAuthed /\ ~last.lookup.hit

\* The messages of the three ways out after the sender's PrepareTransaction:
\* vote not ready, deadline, other RPC error.
SenderPrepareFailed(resp) ==
    resp.message.text \in {"Sender bank cannot process",
                           "Transaction timed out during preparation (sender)",
                           "Error communicating with sender bank"}

\* C24: a run that ends with the sender's PrepareTransaction voting not
\* ready, timing out or raising an RPC error returns status failed, has sent
\* no AbortTransaction and no RPC to the receiver's bank.
C24_SenderPrepareFailure ==
    (FreshRun /\ SenderPrepareFailed(last.resp)) =>
        /\ ~last.resp.success
        /\ last.resp.status = "failed"
        /\ \A i \in DOMAIN last.rpcs :
              last.rpcs[i][1] # "AbortTransaction" /\ last.rpcs[i][2] # "receiver"

\* The sender's bank voted not ready and the run ended right there.
C24_Witness ==
    /\ FreshRun
    /\ last.resp.message.text = "Sender bank cannot process"
    /\ last.rpcs = <<Rpc("GetBalance", "sender"), Rpc("PrepareTransaction", "sender")>>

\* The messages of the three ways out after the receiver's
\* PrepareTransaction: vote not ready, deadline, other RPC error.
ReceiverPrepareFailed(resp) ==
    resp.message.text \in {"Receiver bank cannot process",
                           "Transaction timed out during preparation (receiver)",
                           "Error communicating with receiver bank"}

\* C25: a run that ends with the receiver's PrepareTransaction voting not
\* ready, timing out or raising an RPC error has sent AbortTransaction to the
\* sender's bank, has sent no CommitTransaction, and returns status failed.
C25_ReceiverPrepareFailure ==
    (FreshRun /\ ReceiverPrepareFailed(last.resp)) =>
        /\ ~last.resp.success
        /\ last.resp.status = "failed"
        /\ Sent(last.rpcs, Rpc("AbortTransaction", "sender"))
        /\ \A i \in DOMAIN last.rpcs : last.rpcs[i][1] # "CommitTransaction"

\* The receiver's bank voted not ready and the sender was sent the abort.
C25_Witness ==
    /\ FreshRun
    /\ last.resp.message.text = "Receiver bank cannot process"
    /\ last.rpcs = <<Rpc("GetBalance", "sender"), Rpc("PrepareTransaction", "sender"),
                     Rpc("PrepareTransaction", "receiver"),
                     Rpc("AbortTransaction", "sender")>>
    /\ LastSenderTx \notin DOMAIN prepared_transactions[SenderInfo(last.req.token).bank]

\* No bank holds a prepared entry under transaction id tid.
NotPrepared(tid) == \A b \in Banks : tid \notin DOMAIN prepared_transactions[b]

\* C26: a run in which the time-budget check fired after the sender's prepare
\* has sent, after that prepare, AbortTransaction to the sender and nothing
\* else; one in which it fired after the receiver's prepare has sent, after
\* that prepare, AbortTransaction to the sender and to the receiver and
\* nothing else; both return status failed.
C26_BudgetAbortsPrepared ==
    /\ (FreshRun /\ last.resp.message.text = "Transaction timed out during preparation phase")
          => /\ ~last.resp.success /\ last.resp.status = "failed"
             /\ last.rpcs = <<Rpc("GetBalance", "sender"),
                              Rpc("PrepareTransaction", "sender"),
                              Rpc("AbortTransaction", "sender")>>
    /\ (FreshRun /\ last.resp.message.text = "Transaction timed out before commit phase")
          => /\ ~last.resp.success /\ last.resp.status = "failed"
             /\ last.rpcs = <<Rpc("GetBalance", "sender"),
                              Rpc("PrepareTransaction", "sender"),
                              Rpc("PrepareTransaction", "receiver"),
                              Rpc("AbortTransaction", "sender"),
                              Rpc("AbortTransaction", "receiver")>>

\* The check fired after both banks had voted ready, and both aborts went
\* through: neither entry is left.
C26_Witness ==
    /\ FreshRun
    /\ last.resp.message.text = "Transaction timed out before commit phase"
    /\ {LastSenderTx, LastReceiverTx} \subseteq hist.ready
    /\ NotPrepared(LastSenderTx) /\ NotPrepared(LastReceiverTx)

ReceiverCommitFailed(resp) ==
    resp.message.text \in
        {"CRITICAL ERROR: Sender debited but receiver credit failed",
         "CRITICAL ERROR: Transaction timed out during commit phase (receiver)",
         "CRITICAL ERROR: Error committing to receiver bank"}

\* C28: a run in which the sender's commit returned success and the
\* receiver's CommitTransaction came back without success, timed out or
\* raised an RPC error has sent no AbortTransaction and returns status error
\* with success false.
C28_ReceiverCommitFailure ==
    (FreshRun /\ ReceiverCommitFailed(last.resp)) =>
        /\ LastSenderTx \in hist.acked
        /\ ~last.resp.success
        /\ last.resp.status = "error"
        /\ \A i \in DOMAIN last.rpcs : last.rpcs[i][1] # "AbortTransaction"

\* The receiver's commit timed out after the sender's went through.
C28_Witness ==
    /\ FreshRun
    /\ last.resp.message.text
          = "CRITICAL ERROR: Transaction timed out during commit phase (receiver)"
    /\ last.resp.status = "error"
    /\ HasEntry(LastSenderTx)
    /\ Sent(last.rpcs, Rpc("CommitTransaction", "receiver"))

\* C29: once a run of the coordinator has returned status failed, no bank
\* holds a prepared entry under its sender or its receiver transaction id.
C29_NoPreparedAfterFailed ==
    (FreshRun /\ last.resp.status = "failed" /\ LastGid # NoGid) =>
        NotPrepared(LastSenderTx) /\ NotPrepared(LastReceiverTx)

\* C30: when a bank restarted and lost the prepared entry of a run, sender's
\* or receiver's, the run does not return completed and neither of its two
\* transaction ids is in a ledger: no balance was changed for it.
C30_LostVoteIsNo ==
    (FreshRun /\ {LastSenderTx, LastReceiverTx} \cap hist.lost # {}) =>
        /\ last.resp.status # "completed"
        /\ ~HasEntry(LastSenderTx)
        /\ ~HasEntry(LastReceiverTx)

\* The bank and the id of the bank RPC that has just been served.
DirectBank == hist.direct.bank
DirectTid == hist.direct.tid

\* The ledger of an account, empty when the bank has none for it.
LedgerOf(led, acct) == IF acct \in DOMAIN led THEN led[acct] ELSE <<>>

\* C31: PrepareTransaction and AbortTransaction change no balance and no ledger
\* at the bank, whatever their arguments and whatever the state; of the bank's
\* tables only the prepared table may differ afterwards.
C31_PrepareAbortFrame ==
    [][(hist'.direct.n # hist.direct.n /\ hist'.direct.op \in {"prepare", "abort"})
          => UNCHANGED <<users, transactions, processed_transactions>>]_vars

\* A prepare has voted ready and its entry has just been aborted again, while
\* the prepare of another id is still in the table.
C31_Witness ==
    /\ hist.direct.op = "abort" /\ hist.direct.known
    /\ prepared_transactions[DirectBank] # EmptyMap

\* C32: a CommitTransaction that answers success moves the balance of the
\* prepared account by exactly the prepared amount (down for a debit, up for a
\* credit), appends exactly one entry to that account's ledger, with the
\* transaction id as its entry id, removes the prepared entry, and leaves
\* every other account, ledger and prepared entry as it was.
C32_CommitEffect ==
    [][(hist'.direct.n # hist.direct.n /\ hist'.direct.op = "commit" /\ hist'.direct.ok)
          => LET b == hist'.direct.bank
                 tid == hist'.direct.tid
                 d == prepared_transactions[b][tid]
                 old == LedgerOf(transactions[b], d.account_id)
             IN /\ tid \in DOMAIN prepared_transactions[b]
                /\ users'[b][d.username] =
                      users[b][d.username]
                        + (IF d.type = "debit" THEN 0 - d.amount ELSE d.amount)
                /\ \A u \in Users \ {d.username} : users'[b][u] = users[b][u]
                /\ \A o \in Banks \ {b} : users'[o] = users[o] /\ transactions'[o] = transactions[o]
                /\ d.account_id \in DOMAIN transactions'[b]
                /\ Len(transactions'[b][d.account_id]) = Len(old) + 1
                /\ SubSeq(transactions'[b][d.account_id], 1, Len(old)) = old
                /\ transactions'[b][d.account_id][Len(old) + 1] = Entry(tid, d.type, d.amount)
                /\ \A a \in (DOMAIN transactions'[b] \cup DOMAIN transactions[b]) \ {d.account_id} :
                      LedgerOf(transactions'[b], a) = LedgerOf(transactions[b], a)
                /\ prepared_transactions'[b] = Unprepare(prepared_transactions[b], tid)
                /\ tid \notin DOMAIN prepared_transactions'[b]]_vars

\* A commit has just succeeded while another id was still prepared and the
\* account already had a ledger.
C32_Witness ==
    /\ hist.direct.op = "commit" /\ hist.direct.ok
    /\ prepared_transactions[DirectBank] # EmptyMap
    /\ \E a \in DOMAIN transactions[DirectBank] :
          /\ Len(transactions[DirectBank][a]) >= 2
          /\ transactions[DirectBank][a][Len(transactions[DirectBank][a])].transaction_id
                = DirectTid

\* C33: CommitTransaction for an id that is not in the prepared table (never
\* prepared, committed before or aborted before) answers success=false and
\* leaves balances, ledger and prepared table as they were; a commit answers
\* success only while a ready vote for the id is outstanding, so no prepare
\* is applied twice however many commits are sent.
C33_CommitUnknownRefused ==
    [][(hist'.direct.n # hist.direct.n /\ hist'.direct.op = "commit")
          => /\ ~hist'.direct.known
                  => /\ ~hist'.direct.ok
                     /\ UNCHANGED <<users, transactions, prepared_transactions>>
             /\ hist'.direct.ok
                  => <<hist'.direct.bank, hist'.direct.tid>> \in hist.open]_vars

\* A second commit of an id has just been refused: its prepare was committed
\* before, and the books show that one commit only.
C33_Witness ==
    /\ hist.direct.op = "commit" /\ ~hist.direct.known /\ ~hist.direct.ok
    /\ \E a \in DOMAIN transactions[DirectBank] :
          Cardinality({i \in 1..Len(transactions[DirectBank][a]) :
                         transactions[DirectBank][a][i].transaction_id = DirectTid}) = 1

\* C34: at the bank's own ProcessTransaction, a call with a payment id that
\* was answered before returns the {success, message} of the first call with
\* that id and leaves balances and ledger as they were, so two calls with one
\* id move the balance and the ledger at most once; a debit that is not such
\* a replay and asks for more than the balance answers success=false and
\* changes no balance.
C34_ProcessIdempotent ==
    [][(hist'.direct.n # hist.direct.n /\ hist'.direct.op = "process")
          => LET b == hist'.direct.bank
                 pid == hist'.process.pid
                 acct == hist'.direct.args[1]
                 type == hist'.direct.args[2]
                 amount == hist'.direct.args[3]
                 replay == pid # NoPid /\ pid \in DOMAIN hist.answers
             IN /\ replay
                     => /\ hist'.process.success = hist.answers[pid].success
                        /\ hist'.process.message = hist.answers[pid].message
                        /\ UNCHANGED <<users, transactions>>
                /\ (~replay /\ type = "debit" /\ AccountExists(acct)
                       /\ users[b][UsernameOf(acct)] < amount)
                     => ~hist'.process.success /\ UNCHANGED users]_vars

\* A debit with a payment id has been booked and sent again: the second call
\* was answered with the success of the first although the balance no longer
\* covers the amount.
C34_Witness ==
    /\ hist.direct.op = "process" /\ hist.process.replay /\ hist.process.success
    /\ hist.direct.args[2] = "debit"
    /\ users[DirectBank][UsernameOf(hist.direct.args[1])] < hist.direct.args[3]

\* C35: a token returned by a successful Authenticate is in the token table
\* and accepted by the interceptor for as long as its expiry lies ahead, also
\* when the sweep runs beside the Authenticate that minted it.
C35_MintedTokenAccepted ==
    \A t \in DOMAIN hist.minted :
        now < hist.minted[t] => (t \in DOMAIN active_tokens /\ InterceptorAccepts(t))

\* C36: a response taken from the idempotency cache is returned only to the
\* account whose payment produced it: a ProcessPayment of another
\* authenticated sender that reuses the payment id is not answered with it.
C36_CacheOnlyToOwner ==
    (LastAuthed /\ last.req.mtoken = last.req.token /\ last.lookup.hit)
        => hist.cachedBy[LastPid] = AccountOf(last.req.token.user)

\* C37: at most one monitor thread of the client is live at any time, also
\* when the monitor calls connect() itself during a reconnect and when the
\* foreground calls connect() beside it.
C37_OneSupervisor ==
    Cardinality({t \in 1..MaxThreads : Alive(t)}) <= 1

\* Both the monitor, reconnecting, and the foreground have called
\* start_connectivity_monitor while a monitor was live, and one is live.
C37_Witness ==
    /\ sup.skipped = {"foreground", "monitor"}
    /\ Cardinality({t \in 1..MaxThreads : Alive(t)}) = 1

\* C38: once close() has been followed by a connect() that succeeded, the stop
\* flag is cleared and a monitor thread is live, and stays so.
C38_SupervisorAfterReconnect ==
    sup.after = "reopened" => (~sup.stop_monitoring /\ MonitorRunning)

\* C39: the monitor cuts a call that the foreground has in flight only by
\* closing the channel after a probe that did not reach the gateway.
C39_HealthyChannelKept ==
    sup.cut \in {"", "UNAVAILABLE"}

\* C13: no gateway operation acts for a token whose expiry instant is earlier
\* than now, be it the metadata token of CheckBalance and
\* GetTransactionHistory or the body token of ProcessPayment.
C13_NoExpiredTokenActs == ~hist.stale

====
